---- MODULE Spec2Model ----
(***************************************************************************)
(* vps-ibr: inventory, backup and restore of remote servers over SSH.      *)
(*                                                                         *)
(* Paths are tuples of components ("/etc/nginx/" is <<"etc","nginx">>),    *)
(* local paths are relative to the directory they are joined to, and a     *)
(* remote command is the tuple of its words ("docker ps" is                *)
(* <<"docker","ps">>), so that cmd.split()[0] is Head(cmd).                *)
(***************************************************************************)
EXTENDS Integers, Sequences, FiniteSets, TLC

\* ------------------------------------------------------------------ bounds

\* At most this many remote operations fail in one run.
MaxFailures == 1

\* The service directories a restored backup may hold: the five services with
\* a restore recipe, one with a backup recipe only, one with no recipe at all.
ServiceUniverse == {"nginx", "apache2", "mysql", "postgresql", "docker", "nodejs", "redis"}
\* The sets of service directories a restored backup holds: none, any one
\* service, and a pair (one with a restore recipe, one without).
ServiceSets == {{}} \cup {{s} : s \in ServiceUniverse} \cup {{"nginx", "redis"}}
\* The sets of user directories a restored backup holds.
UserUniverse == {"alice", "bob"}
UserSets == {{}, {"alice"}, {"alice", "bob"}}

\* ------------------------------------------------------------ small helpers

RECURSIVE SetToSeq(_)
SetToSeq(S) == IF S = {} THEN <<>>
               ELSE LET x == CHOOSE y \in S : TRUE
                    IN <<x>> \o SetToSeq(S \ {x})

Range(s) == {s[i] : i \in DOMAIN s}

IsPrefix(p, q) == Len(p) <= Len(q) /\ SubSeq(q, 1, Len(p)) = p

\* ------------------------------------------------------- local file system
\* A directory tree: the set of its directories, and its plain files with their
\* contents; each path is relative to the tree's root.

EmptyFs == [dirs |-> {}, files |-> <<>>]
Prefixes(p) == {SubSeq(p, 1, k) : k \in 1..Len(p)}
exists(fs, p) == p \in fs.dirs \/ p \in DOMAIN fs.files
isdir(fs, p) == p \in fs.dirs
\* os.listdir: the names directly under directory p
listdir(fs, p) == {q[Len(p) + 1] : q \in {r \in fs.dirs \cup DOMAIN fs.files :
                                           Len(r) = Len(p) + 1 /\ IsPrefix(p, r)}}
\* os.makedirs(path, exist_ok=True)
ensure_dir(fs, p) == [fs EXCEPT !.dirs = @ \cup Prefixes(p)]
\* open(p, 'w') and write: the file holds exactly what was written last
WriteFile(fs, p, c) ==
  [fs EXCEPT !.files = [q \in DOMAIN @ \cup {p} |-> IF q = p THEN c ELSE @[q]]]

\* ------------------------------------------------------- remote executor

\* run_ssh_command returns the command's stripped stdout, or None when the
\* command exits non-zero, times out or the transport fails.
NoneResult == [some |-> FALSE, val |-> <<>>]
run_ssh_command(ok, stdout) == IF ok THEN [some |-> TRUE, val |-> stdout] ELSE NoneResult
\* Python truthiness of an Optional[str]: None and "" are both falsy.
Truthy(r) == r.some /\ r.val # <<>>

\* A remote operation as issued. ctx names the caller: its phase, the host it
\* talks to and the service or user it works on.
Ctx(phase, host, unit) == [phase |-> phase, host |-> host, unit |-> unit]
CmdOp(ctx, cmd, ok)       == [kind |-> "cmd", ctx |-> ctx, cmd |-> cmd,
                              src |-> <<>>, dst |-> <<>>, ok |-> ok]
PushOp(ctx, src, dst, ok) == [kind |-> "push", ctx |-> ctx, cmd |-> <<>>,
                              src |-> src, dst |-> dst, ok |-> ok]
PullOp(ctx, src, dst, ok) == [kind |-> "pull", ctx |-> ctx, cmd |-> <<>>,
                              src |-> src, dst |-> dst, ok |-> ok]

FailCount(opseq) == Cardinality({i \in DOMAIN opseq : ~opseq[i].ok})
RECURSIVE FailSets(_, _)
\* The outcomes of the next n remote operations with at most k of them failing:
\* each is the set of the positions that fail.
FailSets(n, k) ==
  IF k <= 0 THEN {{}}
  ELSE LET less == FailSets(n, k - 1)
       IN less \cup {G \cup {i} : G \in less, i \in 1..n}

\* A handler's effects so far: the remote operations it issued, the lines it
\* appended to the restore log, and the exception that ended it, if any. After
\* an exception nothing more of the handler runs.
NewRun == [ops |-> <<>>, log |-> <<>>, raised |-> "none"]
NextOk(b, o) == (Len(b.ops) + 1) \notin o
Raise(b, exc) == IF b.raised # "none" THEN b ELSE [b EXCEPT !.raised = exc]

\* run_ssh_command with the try/except of ssh.py missing: a failed command
\* would raise into the caller.
SshRaising(b, o, ctx, cmd) ==
  IF b.raised # "none" THEN b
  ELSE IF NextOk(b, o) THEN [b EXCEPT !.ops = Append(@, CmdOp(ctx, cmd, TRUE))]
  ELSE [b EXCEPT !.ops = Append(@, CmdOp(ctx, cmd, FALSE)), !.raised = "CalledProcessError"]
\* run_ssh_command, rsync_push, rsync_pull: issue the operation; a failure is a
\* return value (None, False), never an exception.
Ssh(b, o, ctx, cmd) ==
  IF b.raised # "none" THEN b
  ELSE [b EXCEPT !.ops = Append(@, CmdOp(ctx, cmd, NextOk(b, o)))]
Push(b, o, ctx, src, dst) ==
  IF b.raised # "none" THEN b
  ELSE [b EXCEPT !.ops = Append(@, PushOp(ctx, src, dst, NextOk(b, o)))]
Pull(b, o, ctx, src, dst) ==
  IF b.raised # "none" THEN b
  ELSE [b EXCEPT !.ops = Append(@, PullOp(ctx, src, dst, NextOk(b, o)))]

\* -------------------------------------------------------- restore recipes

SERVICE_RESTORE_HANDLERS ==
  [nginx |-> [paths |-> << <<"etc", "nginx">>, <<"var", "www">> >>,
              restart_cmd |-> <<"systemctl", "restart", "nginx">>],
   apache2 |-> [paths |-> << <<"etc", "apache2">>, <<"var", "www">> >>,
                restart_cmd |-> <<"systemctl", "restart", "apache2">>],
   mysql |-> [paths |-> << <<"etc", "mysql">> >>,
              pre_restore_cmd |-> <<"systemctl", "stop", "mysql">>,
              post_restore_cmd |-> <<"mysql", "<", "/tmp/all_databases.sql", "&&",
                                     "systemctl", "start", "mysql">>,
              files |-> << [src |-> <<"files", "all_databases.sql">>,
                            dst |-> <<"tmp", "all_databases.sql">>] >>],
   postgresql |-> [paths |-> << <<"etc", "postgresql">> >>,
                   pre_restore_cmd |-> <<"systemctl", "stop", "postgresql">>,
                   post_restore_cmd |-> <<"su", "-", "postgres", "-c",
                                          "'psql < /tmp/pg_dumpall.sql'", "&&",
                                          "systemctl", "start", "postgresql">>,
                   files |-> << [src |-> <<"files", "pg_dumpall.sql">>,
                                 dst |-> <<"tmp", "pg_dumpall.sql">>] >>],
   docker |-> [paths |-> << <<"etc", "docker">> >>,
               post_restore_cmd |-> <<"systemctl", "restart", "docker">>]]

\* handler = SERVICE_RESTORE_HANDLERS.get(service); `handler and "k" in handler`
HasRestoreKey(service, k) ==
  /\ service \in DOMAIN SERVICE_RESTORE_HANDLERS
  /\ k \in DOMAIN SERVICE_RESTORE_HANDLERS[service]

\* The services restore_service knows how to install.
InstallableServices == {"nginx", "apache2", "mysql", "postgresql", "docker"}

\* ------------------------------------------------------------ restore log

\* log_message writes "[timestamp] message"; the header and the final section
\* are written by restore_server itself, without the tag.
Tagged(msg) == [tag |-> TRUE, msg |-> msg]
Plain(msg)  == [tag |-> FALSE, msg |-> msg]
log_message(b, msg) == IF b.raised # "none" THEN b ELSE [b EXCEPT !.log = Append(@, Tagged(msg))]

\* ------------------------------------------------------------ restore steps

Target == "target"
SysCtx == Ctx("system", Target, "")
SvcCtx(service) == Ctx("service", Target, service)
HomeCtx(user) == Ctx("home", Target, user)

RECURSIVE RestoreRecipePaths(_, _, _, _, _)
\* restore_service: `for path in handler["paths"]`, from the i-th path on
RestoreRecipePaths(b, o, fs, service, i) ==
  LET paths == SERVICE_RESTORE_HANDLERS[service].paths
      files_dir == <<"services", service, "files">>
  IN IF i > Len(paths) THEN b
     ELSE LET path == paths[i]
              \* os.path.join(files_dir, path.lstrip('/'))
              src_path == files_dir \o path
              b1 == IF exists(fs, src_path)
                    THEN Push(log_message(b, <<"  Restoring", path>>), o, SvcCtx(service), src_path, path)
                    ELSE b
          IN RestoreRecipePaths(b1, o, fs, service, i + 1)

RECURSIVE RestoreInferredAll(_, _, _, _, _, _)
\* Every entry of the files area pushed, plain files too.
RestoreInferredAll(b, o, fs, service, items, i) ==
  LET files_dir == <<"services", service, "files">>
  IN IF i > Len(items) THEN b
     ELSE RestoreInferredAll(Push(log_message(b, <<"  Restoring", <<items[i]>> >>), o,
                                  SvcCtx(service), files_dir \o <<items[i]>>, <<items[i]>>),
                             o, fs, service, items, i + 1)

RECURSIVE RestoreInferredPaths(_, _, _, _, _, _)
\* restore_service: `for item in os.listdir(files_dir)`, items in listing order
RestoreInferredPaths(b, o, fs, service, items, i) ==
  LET files_dir == <<"services", service, "files">>
  IN IF i > Len(items) THEN b
     ELSE LET src_path == files_dir \o <<items[i]>>
              dst_path == <<items[i]>>
              b1 == IF isdir(fs, src_path)
                    THEN Push(log_message(b, <<"  Restoring", dst_path>>), o, SvcCtx(service), src_path, dst_path)
                    ELSE b
          IN RestoreInferredPaths(b1, o, fs, service, items, i + 1)

RECURSIVE RestoreRecipeFiles(_, _, _, _, _)
\* restore_service: `for file_info in handler["files"]`. The copy calls
\* subprocess.run, and the module never imports subprocess: the first file that
\* is present ends the call with NameError, after mkdir and after the local
\* scratch file was written.
RestoreRecipeFiles(b, o, fs, service, i) ==
  LET files == SERVICE_RESTORE_HANDLERS[service].files
  IN IF i > Len(files) \/ b.raised # "none" THEN b
     ELSE LET src_path == <<"services", service>> \o files[i].src
              dst == files[i].dst
              dst_dir == SubSeq(dst, 1, Len(dst) - 1)
              b1 == IF exists(fs, src_path)
                    THEN Raise(Ssh(log_message(b, <<"  Copying file", files[i].src, dst>>),
                                   o, SvcCtx(service), <<"mkdir", "-p">> \o dst_dir),
                               "NameError")
                    ELSE b
          IN RestoreRecipeFiles(b1, o, fs, service, i + 1)

\* restore_service, lines 285-304: the install command chosen, <<>> when none.
\* `which apt >/dev/null 2>&1` prints nothing, so its result is "" or None.
InstallStep(b, o, service, installed) ==
  IF service \notin InstallableServices THEN b
  ELSE LET check_result == run_ssh_command(NextOk(b, o),
                             IF installed THEN <<>> ELSE <<"not_installed">>)
           b1 == Ssh(b, o, SvcCtx(service), <<"which", service, "||", "echo", "not_installed">>)
       IN IF check_result # run_ssh_command(TRUE, <<"not_installed">>) THEN b1
          ELSE LET apt == run_ssh_command(NextOk(b1, o), <<>>)
                   b2 == Ssh(b1, o, SvcCtx(service), <<"which", "apt">>)
               IN IF Truthy(apt)
                  THEN Ssh(log_message(b2, <<"  Installing", service, "apt">>), o, SvcCtx(service),
                           <<"apt", "update", "&&", "apt", "install", "-y", service>>)
                  ELSE LET yum == run_ssh_command(NextOk(b2, o), <<>>)
                           b3 == Ssh(b2, o, SvcCtx(service), <<"which", "yum">>)
                       IN IF Truthy(yum)
                          THEN Ssh(log_message(b3, <<"  Installing", service, "yum">>), o,
                                   SvcCtx(service), <<"yum", "install", "-y", service>>)
                          ELSE b3

\* restore_service, lines 306-314
\* No command at the end of a service restore.
PostStepNone(b, o, service) == b
\* A restart at the end of every service restore, recipe or not.
PostStepForAll(b, o, service) ==
  IF HasRestoreKey(service, "post_restore_cmd")
  THEN Ssh(log_message(b, <<"  Running post-restore command">>), o, SvcCtx(service),
           SERVICE_RESTORE_HANDLERS[service].post_restore_cmd)
  ELSE Ssh(log_message(b, <<"  Restarting service">>), o, SvcCtx(service),
           <<"systemctl", "restart", service>>)
PostStep(b, o, service) ==
  IF HasRestoreKey(service, "post_restore_cmd")
  THEN Ssh(log_message(b, <<"  Running post-restore command">>), o, SvcCtx(service),
           SERVICE_RESTORE_HANDLERS[service].post_restore_cmd)
  ELSE IF HasRestoreKey(service, "restart_cmd")
  THEN Ssh(log_message(b, <<"  Restarting service">>), o, SvcCtx(service),
           SERVICE_RESTORE_HANDLERS[service].restart_cmd)
  ELSE b

\* restore_service(service): fs is the backup tree, items the listing of the
\* service's files area, o the outcomes of its remote operations, installed
\* whether the target has the service's binary.
restore_service(fs, service, items, o, installed) ==
  LET files_dir == <<"services", service, "files">>
      b0 == log_message(NewRun, <<"Restoring service:", service>>)
      b1 == IF HasRestoreKey(service, "pre_restore_cmd")
            THEN Ssh(log_message(b0, <<"  Running pre-restore command">>), o, SvcCtx(service),
                     SERVICE_RESTORE_HANDLERS[service].pre_restore_cmd)
            ELSE b0
      b2 == IF ~exists(fs, files_dir) THEN b1
            ELSE IF HasRestoreKey(service, "paths")
                 THEN RestoreRecipePaths(b1, o, fs, service, 1)
                 ELSE RestoreInferredPaths(b1, o, fs, service, items, 1)
      b3 == IF HasRestoreKey(service, "files")
            THEN RestoreRecipeFiles(b2, o, fs, service, 1)
            ELSE b2
  IN PostStep(InstallStep(b3, o, service, installed), o, service)

\* restore_system_configs
restore_system_configs(fs, o) ==
  LET system_dir == <<"system">>
      etc_dir == system_dir \o <<"etc">>
      cron_dir == system_dir \o <<"var", "spool", "cron">>
  IN IF ~exists(fs, system_dir)
     THEN log_message(NewRun, <<"No system configuration backup found, skipping">>)
     ELSE LET b0 == log_message(NewRun, <<"Restoring system configurations">>)
              b1 == IF exists(fs, etc_dir)
                    THEN Push(log_message(b0, <<"  Restoring /etc directory">>), o, SysCtx,
                              etc_dir, <<"etc">>)
                    ELSE b0
          IN IF exists(fs, cron_dir)
             THEN Push(log_message(b1, <<"  Restoring cron jobs">>), o, SysCtx,
                       cron_dir, <<"var", "spool", "cron">>)
             ELSE b1

\* The home directory getent reports for an account of the target.
HomeOf(user) == IF user = "root" THEN <<"root">> ELSE <<"home", user>>

\* restore_server, lines 117-129: one user of homes/. existed is whether the
\* target already has the account; useradd creates it when the command succeeds.
\* The home tree pushed to the usual home when the lookup gave nothing.
RestoreUserHomeAlways(user, o, existed) ==
  LET b1 == Ssh(NewRun, o, HomeCtx(user), <<"id", user, "||", "useradd", "-m", user>>)
      b2 == Ssh(b1, o, HomeCtx(user), <<"getent", "passwd", user, "|", "cut", "-d:", "-f6">>)
  IN [run |-> Push(log_message(b2, <<"Restoring home directory for user", user>>),
                   o, HomeCtx(user), <<"homes", user>>, HomeOf(user)),
      restored |-> TRUE]
RestoreUserHome(user, o, existed) ==
  LET user_dir == <<"homes", user>>
      b1 == Ssh(NewRun, o, HomeCtx(user), <<"id", user, "||", "useradd", "-m", user>>)
      has == existed \/ 1 \notin o
      home_dir == run_ssh_command(NextOk(b1, o), IF has THEN HomeOf(user) ELSE <<>>)
      b2 == Ssh(b1, o, HomeCtx(user), <<"getent", "passwd", user, "|", "cut", "-d:", "-f6">>)
  IN IF Truthy(home_dir)
     THEN [run |-> Push(log_message(b2, <<"Restoring home directory for user", user>>),
                        o, HomeCtx(user), user_dir, home_dir.val),
           restored |-> TRUE]
     ELSE [run |-> b2, restored |-> FALSE]

\* --------------------------------------------------------- backup recipes

SERVICE_BACKUP_HANDLERS ==
  [nginx |-> [paths |-> << <<"etc", "nginx">>, <<"var", "www">> >>,
              commands |-> << <<"nginx", "-T">> >>],
   apache2 |-> [paths |-> << <<"etc", "apache2">>, <<"var", "www">> >>,
                commands |-> << <<"apache2ctl", "-S">> >>],
   mysql |-> [paths |-> << <<"etc", "mysql">> >>,
              commands |-> << <<"mysqldump", "--all-databases", ">", "tmp", "all_databases.sql">> >>,
              files |-> << <<"tmp", "all_databases.sql">> >>],
   postgresql |-> [paths |-> << <<"etc", "postgresql">> >>,
                   commands |-> << <<"pg_dumpall", "-U", "postgres", ">", "tmp", "pg_dumpall.sql">> >>,
                   files |-> << <<"tmp", "pg_dumpall.sql">> >>],
   docker |-> [paths |-> << <<"var", "lib", "docker", "volumes">>, <<"etc", "docker">> >>,
               commands |-> << <<"docker", "ps">>, <<"docker", "volume", "ls">> >>],
   nodejs |-> [paths |-> << <<"etc", "nodejs">>, <<"var", "www">> >>,
               commands |-> <<>>]]

\* handler.get(k, [])
BackupRecipe(service, k) ==
  IF k \in DOMAIN SERVICE_BACKUP_HANDLERS[service]
  THEN SERVICE_BACKUP_HANDLERS[service][k] ELSE <<>>

\* backup_system_configs: system_paths and system_commands
system_paths == << <<"etc">>, <<"var", "spool", "cron">>, <<"var", "log">> >>
system_commands ==
  << <<"uname", "-a">>, <<"lsb_release", "-a">>, <<"df", "-h">>, <<"free", "-m">>,
     <<"netstat", "-tulpn">>, <<"ps", "aux">>, <<"dpkg", "-l">>,
     <<"systemctl", "list-units", "--type=service">>, <<"ss", "-tulpn">>,
     <<"ifconfig", "-a">> >>

\* What a command prints on success. A command that redirects its stdout into a
\* remote file prints nothing and leaves that file on the remote host.
Redirects(cmd) == \E i \in DOMAIN cmd : cmd[i] = ">"
RedirectTarget(cmd) ==
  LET i == CHOOSE j \in DOMAIN cmd : cmd[j] = ">" IN SubSeq(cmd, i + 1, Len(cmd))
Stdout(cmd) == IF Redirects(cmd) THEN <<>> ELSE <<"output of">> \o cmd

\* ------------------------------------------------------------ backup steps

\* A backup handler's effects so far: the remote operations issued, the local
\* snapshot tree, the scratch files on the remote host.
NewBackupRun(fs, remote) == [ops |-> <<>>, raised |-> "none", fs |-> fs, remote |-> remote]
EnsureDir(b, p) == IF b.raised # "none" THEN b ELSE [b EXCEPT !.fs = ensure_dir(@, p)]
Write(b, p, c) == IF b.raised # "none" THEN b ELSE [b EXCEPT !.fs = WriteFile(@, p, c)]

\* rsync_pull(remote_path, local_path): on success local_path mirrors the
\* remote directory; "*" stands for the mirrored content.
PullTree(b, o, ctx, remote_path, local_path) ==
  LET ok == NextOk(b, o)
      b1 == Pull(b, o, ctx, remote_path, local_path)
  IN IF b.raised # "none" \/ ~ok THEN b1
     ELSE [b1 EXCEPT !.fs = WriteFile(ensure_dir(@, local_path), local_path \o <<"*">>,
                                      remote_path)]

\* run_ssh_command(cmd) with what the command does on the remote host: a
\* redirection leaves its target file there, rm removes its argument, and
\* `scp <file> root@localhost:/tmp/` copies a remote file to the remote /tmp.
RunRemote(b, o, ctx, cmd) ==
  LET ok == NextOk(b, o)
      b1 == Ssh(b, o, ctx, cmd)
  IN IF b.raised # "none" \/ ~ok THEN b1
     ELSE IF Redirects(cmd) THEN [b1 EXCEPT !.remote = @ \cup {RedirectTarget(cmd)}]
     ELSE IF Head(cmd) = "rm" THEN [b1 EXCEPT !.remote = @ \ {Tail(cmd)}]
     ELSE b1

RECURSIVE BackupPaths(_, _, _, _, _)
\* backup_service: `for path in handler.get("paths", [])`
BackupPaths(b, o, ip, service, i) ==
  LET paths == BackupRecipe(service, "paths")
      service_dir == <<ip, "services", service>>
  IN IF i > Len(paths) THEN b
     ELSE LET path == paths[i]
              local_path == service_dir \o <<"files">> \o path
              \* path ends with "/": os.path.dirname(local_path) is local_path
              b1 == EnsureDir(b, local_path)
          IN BackupPaths(PullTree(b1, o, Ctx("service", ip, service), path, local_path),
                         o, ip, service, i + 1)

\* f"{cmd_name}_output.txt"
OutputName(cmd) == Head(cmd) \o "_output.txt"

RECURSIVE BackupCommands(_, _, _, _, _)
\* backup_service: `for cmd in handler.get("commands", [])`
BackupCommands(b, o, ip, service, i) ==
  LET commands == BackupRecipe(service, "commands")
      service_dir == <<ip, "services", service>>
  IN IF i > Len(commands) THEN b
     ELSE LET cmd == commands[i]
              output == run_ssh_command(NextOk(b, o), Stdout(cmd))
              b1 == RunRemote(b, o, Ctx("service", ip, service), cmd)
              b2 == IF Truthy(output)
                    THEN Write(b1, service_dir \o <<OutputName(cmd)>>, output.val)
                    ELSE b1
          IN BackupCommands(b2, o, ip, service, i + 1)

RECURSIVE BackupFiles(_, _, _, _, _)
\* backup_service: `for file_path in handler.get("files", [])`. local_file is
\* computed and its directory made; nothing is ever copied to it.
BackupFiles(b, o, ip, service, i) ==
  LET files == BackupRecipe(service, "files")
      service_dir == <<ip, "services", service>>
  IN IF i > Len(files) THEN b
     ELSE LET file_path == files[i]
              local_file == service_dir \o <<"files", file_path[Len(file_path)]>>
              b1 == EnsureDir(b, SubSeq(local_file, 1, Len(local_file) - 1))
              b2 == RunRemote(b1, o, Ctx("service", ip, service),
                              <<"scp">> \o file_path \o <<"root@localhost:/tmp/">>)
              b3 == RunRemote(b2, o, Ctx("service", ip, service), <<"rm">> \o file_path)
          IN BackupFiles(b3, o, ip, service, i + 1)

\* backup_service(ip, service, handler, server_dir)
backup_service(b, o, ip, service) ==
  LET b0 == EnsureDir(b, <<ip, "services", service>>)
  IN BackupFiles(BackupCommands(BackupPaths(b0, o, ip, service, 1), o, ip, service, 1),
                 o, ip, service, 1)

\* awk -F: '$3 >= 1000 && $3 != 65534 {print $1 ":" $6}' /etc/passwd, and then
\* line.strip().split(":"): one <<name, home>> per qualifying account
AwkUsers(passwd) ==
  LET sel == SelectSeq(passwd, LAMBDA a : a.uid >= 1000 /\ a.uid # 65534)
  IN [i \in 1..Len(sel) |-> <<sel[i].name, sel[i].home>>]

RECURSIVE BackupHomes(_, _, _, _, _)
\* backup_user_homes: `for line in output.splitlines()`
BackupHomes(b, o, ip, lines, i) ==
  IF i > Len(lines) THEN b
  ELSE LET parts == lines[i]
           b1 == IF Len(parts) >= 2
                 THEN LET username == parts[1]
                          home_dir == parts[2]
                          user_backup_dir == <<ip, "homes", username>>
                      IN PullTree(EnsureDir(b, user_backup_dir), o, Ctx("homes", ip, username),
                                  <<home_dir>>, user_backup_dir)
                 ELSE b
       IN BackupHomes(b1, o, ip, lines, i + 1)

UserCmd == <<"awk", "-F:", "'$3 >= 1000 && $3 != 65534 {print $1 \":\" $6}'", "/etc/passwd">>

\* backup_user_homes(ip, ssh_key_path, server_dir)
backup_user_homes(b, o, ip, passwd) ==
  LET output == run_ssh_command(NextOk(b, o), AwkUsers(passwd))
      b1 == Ssh(b, o, Ctx("homes", ip, ""), UserCmd)
  IN IF ~Truthy(output) THEN b1
     ELSE BackupHomes(EnsureDir(b1, <<ip, "homes">>), o, ip, output.val, 1)

\* The subdirectories of d, as create_backup_summary lists them.
Subdirs(fs, d) == IF exists(fs, d) THEN {n \in listdir(fs, d) : isdir(fs, d \o <<n>>)} ELSE {}

\* A summary that lists only what the pulls and commands brought back.
SummaryOfRetrieved(fs, ip) ==
  LET Holding(d) == {n \in Subdirs(fs, d) :
                       \E f \in DOMAIN fs.files : IsPrefix(d \o <<n>>, f)}
      summary == [services |-> Holding(<<ip, "services">>),
                  users |-> Holding(<<ip, "homes">>)]
  IN WriteFile(WriteFile(fs, <<ip, "backup_summary.json">>, summary),
               <<ip, "backup_summary.txt">>, summary)

\* create_backup_summary(server_dir)
create_backup_summary(fs, ip) ==
  LET summary == [services |-> Subdirs(fs, <<ip, "services">>),
                  users |-> Subdirs(fs, <<ip, "homes">>)]
  IN WriteFile(WriteFile(fs, <<ip, "backup_summary.json">>, summary),
               <<ip, "backup_summary.txt">>, summary)

RECURSIVE BackupSystemPaths(_, _, _, _)
BackupSystemPaths(b, o, ip, i) ==
  IF i > Len(system_paths) THEN b
  ELSE LET local_path == <<ip, "system">> \o system_paths[i]
       IN BackupSystemPaths(PullTree(EnsureDir(b, local_path), o, Ctx("system", ip, ""),
                                     system_paths[i], local_path),
                            o, ip, i + 1)

RECURSIVE BackupSystemCommands(_, _, _, _)
\* cmd_name = cmd.split()[0].replace('-', '_'): no first word of
\* system_commands holds a '-'
BackupSystemCommands(b, o, ip, i) ==
  IF i > Len(system_commands) THEN b
  ELSE LET cmd == system_commands[i]
           output == run_ssh_command(NextOk(b, o), Stdout(cmd))
           b1 == RunRemote(b, o, Ctx("system", ip, ""), cmd)
           b2 == IF Truthy(output)
                 THEN Write(b1, <<ip, "system", OutputName(cmd)>>, output.val)
                 ELSE b1
       IN BackupSystemCommands(b2, o, ip, i + 1)

\* backup_system_configs(ip, ssh_key_path, server_dir), summary included
backup_system_configs(b, o, ip) ==
  LET b1 == BackupSystemCommands(
              BackupSystemPaths(EnsureDir(b, <<ip, "system">>), o, ip, 1), o, ip, 1)
  IN IF b1.raised # "none" THEN b1 ELSE [b1 EXCEPT !.fs = create_backup_summary(@, ip)]

\* ------------------------------------------------------- inventory lookup

\* The working directory holds the run directories "ibr-<timestamp>" of earlier
\* runs; such names sort as their timestamps t. A run directory holds server
\* directories "<ip>-<date>": users says whether it has a users/ tree (an
\* inventory snapshot), services what the histories under it mention.
NoInventory == [found |-> FALSE, t |-> 0, dir |-> [ip |-> "", date |-> 0, users |-> FALSE,
                                                   services |-> <<>>]]

\* find_inventory_for_server(ip) over the run directories of the working directory
find_inventory_for_server(cwd, ip) ==
  LET hits == {d \in cwd : \E sd \in d.servers : sd.ip = ip}
  IN IF hits = {} THEN NoInventory
     ELSE LET inv_dir == CHOOSE d \in hits : \A e \in hits : e.t <= d.t
              server_dirs == {sd \in inv_dir.servers : sd.ip = ip}
              first == CHOOSE sd \in server_dirs : \A r \in server_dirs : r.date <= sd.date
          IN [found |-> TRUE, t |-> inv_dir.t, dir |-> first]

\* analyze_server_history(server_dir): {} without a users/ tree, else the
\* consolidated analysis, of which create_backup reads "services"
analyze_server_history(sd) ==
  IF ~sd.users THEN [empty |-> TRUE, services |-> <<>>]
  ELSE [empty |-> FALSE, services |-> sd.services]

\* create_backup, lines 108-122: the services detected for a server
services_detected(cwd, ip) ==
  LET inventory_data == find_inventory_for_server(cwd, ip)
  IN IF inventory_data.found
     THEN LET server_analysis == analyze_server_history(inventory_data.dir)
          IN IF ~server_analysis.empty THEN server_analysis.services ELSE <<>>
     ELSE <<>>

\* ------------------------------------------------------------------- state

VARIABLES
  ops,              \* the remote operations issued so far, in order
  result,           \* what the entry point returned or raised; "none" while running
  \* restore_server
  rpc,              \* where restore_server is
  bdirExists,       \* backup_dir exists and is a directory
  bdir,             \* the tree under backup_dir, the restore log apart
  keyExists,        \* the SSH key file exists
  logFile,          \* restore_log.txt: whether it exists, and its lines
  tmpFile,          \* whether the local scratch file /tmp/temp_file exists
  svcDone,          \* the entries of services/ already handled
  userDone,         \* the entries of homes/ already handled
  services_restored,
  users_restored,
  \* create_backup
  bpc,              \* where create_backup is: server index i, step, service index k
  servers,          \* config["servers"]: the ip of each entry, "" when it has none
  server_ip,        \* the ip asked for, "" for all servers
  output_dir,       \* "default" (ibr-<now> in the working directory) or "explicit"
  history,          \* the run directories of earlier runs in the working directory
  lfs,              \* the tree under the backup root
  rootMade,         \* the backup root exists
  remote,           \* scratch files present on the remote host
  detected,         \* per server index: services_detected
  enumerated,       \* per server index: the account list backup_user_homes read
  \* a single call of a function of the inventory or of the SSH utilities
  fn,               \* the function called, "idle" when none is
  arg,              \* its input
  ret,              \* whether it has returned, and what
  loc               \* the local files the call works on

rvars == <<rpc, bdirExists, bdir, keyExists, logFile, tmpFile, svcDone, userDone,
           services_restored, users_restored>>
bvars == <<bpc, servers, server_ip, output_dir, history, lfs, rootMade, remote, detected,
           enumerated>>
uvars == <<fn, arg, ret, loc>>
vars == <<ops, result, rvars, bvars, uvars>>

\* ------------------------------------------------------------ restore_server

\* The trees a restored backup directory may hold.
SystemOptions ==
  {{}} \cup {Prefixes(<<"system">>) \cup UNION {Prefixes(p) : p \in X} :
               X \in SUBSET {<<"system", "etc">>, <<"system", "var", "spool", "cron">>}}
\* What the files area of a service may hold: the directories its backup recipe
\* pulls and its dump file, or for a service without recipe a directory and a file.
CandidateDirs(s) ==
  IF s \in DOMAIN SERVICE_BACKUP_HANDLERS
  THEN {<<"files">> \o p : p \in Range(BackupRecipe(s, "paths"))}
  ELSE {<<"files", "etc", s>>}
CandidateFiles(s) ==
  IF s \in DOMAIN SERVICE_BACKUP_HANDLERS
  THEN {<<"files", f[Len(f)]>> : f \in Range(BackupRecipe(s, "files"))}
  ELSE {<<"files", "notes.txt">>}
ServiceDirs(s, c) ==
  Prefixes(<<"services", s>>)
    \cup UNION {Prefixes(<<"services", s>> \o p) : p \in c \cap CandidateDirs(s)}
    \cup (IF c \cap CandidateFiles(s) = {} THEN {} ELSE {<<"services", s, "files">>})
ServiceFiles(s, c) == {<<"services", s>> \o p : p \in c \cap CandidateFiles(s)}
ServiceTrees(s) ==
  {[dirs |-> ServiceDirs(s, c), files |-> ServiceFiles(s, c)] :
     c \in SUBSET (CandidateDirs(s) \cup CandidateFiles(s))}
RECURSIVE ServicesTrees(_)
ServicesTrees(S) ==
  IF S = {} THEN {[dirs |-> {}, files |-> {}]}
  ELSE LET s == CHOOSE x \in S : TRUE
       IN {[dirs |-> a.dirs \cup r.dirs, files |-> a.files \cup r.files] :
             a \in ServiceTrees(s), r \in ServicesTrees(S \ {s})}
BackupTrees ==
  {[dirs |-> sys \cup st.dirs \cup UNION {Prefixes(<<"homes", u>>) : u \in U},
    files |-> [p \in st.files |-> <<>>]] :
     st \in UNION {ServicesTrees(S) : S \in ServiceSets},
     sys \in SystemOptions,
     U \in UserSets}

NoLog == [present |-> FALSE, lines |-> <<>>]

NotReturned == [done |-> FALSE, val |-> <<>>]
Returned(v) == [done |-> TRUE, val |-> v]
UnitIdle == fn = "idle" /\ arg = <<>> /\ ret = NotReturned /\ loc = <<>>

RestoreIdle ==
  /\ rpc = "idle" /\ bdirExists = FALSE /\ bdir = EmptyFs /\ keyExists = FALSE
  /\ logFile = NoLog /\ tmpFile = FALSE /\ svcDone = {} /\ userDone = {}
  /\ services_restored = <<>> /\ users_restored = <<>>

InitRestore ==
  /\ ops = <<>> /\ result = "none" /\ rpc = "start"
  /\ \/ bdirExists = FALSE /\ bdir = EmptyFs
     \/ bdirExists = TRUE /\ bdir \in BackupTrees
  /\ keyExists \in BOOLEAN
  /\ logFile = NoLog /\ tmpFile = FALSE /\ svcDone = {} /\ userDone = {}
  /\ services_restored = <<>> /\ users_restored = <<>>

\* restore_server runs its phases in this order.
PhaseAfterHomesFirst(phase) ==
  CASE phase = "system" -> "homes"
    [] phase = "homes" -> "services"
    [] OTHER -> "complete"
PhaseAfter(phase) ==
  CASE phase = "system" -> "services"
    [] phase = "services" -> "homes"
    [] OTHER -> "complete"

PendingServices == {s \in Subdirs(bdir, <<"services">>) : s \notin svcDone}
PendingUsers == {u \in Subdirs(bdir, <<"homes">>) : u \notin userDone}

RECURSIVE Advance(_, _, _)
\* The next phase that has something to do: a loop over no entries is passed.
Advance(phase, pendS, pendU) ==
  IF phase = "services" /\ pendS = {} THEN Advance(PhaseAfter(phase), pendS, pendU)
  ELSE IF phase = "homes" /\ pendU = {} THEN Advance(PhaseAfter(phase), pendS, pendU)
  ELSE phase

ListingOrders(S) ==
  {q \in [1..Cardinality(S) -> S] : \A i, j \in 1..Cardinality(S) : q[i] = q[j] => i = j}

\* The failures still allowed in this run, over a handler that issues at most n
\* operations.
RestoreOutcomes(n) == FailSets(n, MaxFailures - FailCount(ops))
Issued(o, r) == \A i \in o : i <= Len(r.ops)

\* The connectivity probe failed: `if not test_result`
ProbeIgnored(test_result) == FALSE
ProbeFailed(test_result) == ~Truthy(test_result)

\* restore_server, lines 59-90: the preconditions, the probe, the log header
RestoreStart ==
  /\ rpc = "start"
  /\ UNCHANGED <<bdirExists, bdir, keyExists, tmpFile, svcDone, userDone,
                 services_restored, users_restored>>
  /\ UNCHANGED <<bvars, uvars>>
  /\ IF ~bdirExists \/ ~keyExists
     THEN /\ result' = "False" /\ rpc' = "done"
          /\ UNCHANGED <<ops, logFile>>
     ELSE \E o \in RestoreOutcomes(1) :
            LET test_result == run_ssh_command(1 \notin o, <<"SSH connection successful">>)
            IN /\ ops' = Append(ops, CmdOp(Ctx("probe", Target, ""),
                                           <<"echo", "'SSH connection successful'">>,
                                           1 \notin o))
               /\ IF ProbeFailed(test_result)
                  THEN /\ result' = "False" /\ rpc' = "done"
                       /\ UNCHANGED logFile
                  ELSE \* open(log_file, 'w'): the file is created or truncated
                       /\ logFile' = [present |-> TRUE,
                                      lines |-> <<Plain(<<"Restoration started:">>),
                                                  Plain(<<"Target server:">>),
                                                  Plain(<<"Backup directory:">>),
                                                  Plain(<<>>)>>]
                       /\ rpc' = "system"
                       /\ UNCHANGED result

\* restore_server, line 93
RestoreSystemConfigs ==
  /\ rpc = "system"
  /\ \E o \in RestoreOutcomes(2) :
       LET r == restore_system_configs(bdir, o)
       IN /\ Issued(o, r)
          /\ ops' = ops \o r.ops
          /\ logFile' = [logFile EXCEPT !.lines = @ \o r.log]
  /\ rpc' = Advance(PhaseAfter("system"), PendingServices, PendingUsers)
  /\ UNCHANGED <<result, bdirExists, bdir, keyExists, tmpFile, svcDone, userDone,
                 services_restored, users_restored>>
  /\ UNCHANGED <<bvars, uvars>>

\* A scratch file kept inside the backup tree.
ScratchInTree == <<"services", "temp_file">>
\* open("/tmp/temp_file", 'wb'): the scratch file of restore_service, an
\* absolute path outside the backup directory
ScratchFile == <<"/", "tmp", "temp_file">>
\* What writing the local file p does to the tree under backup_dir, whose paths
\* are relative to backup_dir.
WriteLocal(fs, p) == IF Head(p) = "/" THEN fs ELSE WriteFile(fs, p, <<>>)

\* restore_server, lines 100-107: one entry of services/
RestoreService(service) ==
  /\ rpc = "services"
  /\ service \in PendingServices
  /\ \E items \in ListingOrders(listdir(bdir, <<"services", service, "files">>)),
        installed \in BOOLEAN :
       \E o \in RestoreOutcomes(Len(restore_service(bdir, service, items, {}, FALSE).ops)) :
         LET r == restore_service(bdir, service, items, o, installed)
         IN /\ Issued(o, r)
            /\ ops' = ops \o r.ops
            /\ logFile' = [logFile EXCEPT !.lines = @ \o r.log]
            /\ IF r.raised # "none"
               THEN \* the scratch file was written and is never removed
                    /\ tmpFile' = TRUE
                    /\ bdir' = WriteLocal(bdir, ScratchFile)
                    /\ result' = r.raised /\ rpc' = "done"
                    /\ UNCHANGED <<svcDone, services_restored>>
               ELSE /\ svcDone' = svcDone \cup {service}
                    /\ services_restored' = Append(services_restored, service)
                    /\ rpc' = Advance("services", PendingServices \ {service}, PendingUsers)
                    /\ UNCHANGED <<tmpFile, bdir, result>>
  /\ UNCHANGED <<bdirExists, keyExists, userDone, users_restored>>
  /\ UNCHANGED <<bvars, uvars>>

\* restore_server, lines 114-129: one entry of homes/
RestoreHome(user) ==
  /\ rpc = "homes"
  /\ user \in PendingUsers
  /\ \E existed \in BOOLEAN :
       \E o \in RestoreOutcomes(3) :
         LET r == RestoreUserHome(user, o, existed)
         IN /\ Issued(o, r.run)
            /\ ops' = ops \o r.run.ops
            /\ logFile' = [logFile EXCEPT !.lines = @ \o r.run.log]
            /\ users_restored' = IF r.restored THEN Append(users_restored, user)
                                 ELSE users_restored
  /\ userDone' = userDone \cup {user}
  /\ rpc' = Advance("homes", PendingServices, PendingUsers \ {user})
  /\ UNCHANGED <<result, bdirExists, bdir, keyExists, tmpFile, svcDone, services_restored>>
  /\ UNCHANGED <<bvars, uvars>>

\* restore_server, lines 131-146: the final section of the log, return True
RestoreComplete ==
  /\ rpc = "complete"
  /\ logFile' = [logFile EXCEPT !.lines =
                   @ \o <<Plain(<<>>), Plain(<<"Restoration completed.">>),
                          Plain(<<"Completed:">>), Plain(<<>>),
                          Plain(<<"Services restored:">>)>>
                     \o [i \in 1..Len(services_restored) |-> Plain(<<"  -", services_restored[i]>>)]
                     \o <<Plain(<<>>), Plain(<<"Users restored:">>)>>
                     \o [i \in 1..Len(users_restored) |-> Plain(<<"  -", users_restored[i]>>)]]
  /\ result' = "True" /\ rpc' = "done"
  /\ UNCHANGED <<ops, bdirExists, bdir, keyExists, tmpFile, svcDone, userDone,
                 services_restored, users_restored>>
  /\ UNCHANGED <<bvars, uvars>>

BackupIdle ==
  /\ bpc = [i |-> 0, step |-> "idle", k |-> 0] /\ servers = <<>> /\ server_ip = ""
  /\ output_dir = "default" /\ history = {} /\ lfs = EmptyFs /\ rootMade = FALSE
  /\ remote = {} /\ detected = <<>> /\ enumerated = <<>>

NextRestore ==
  \/ RestoreStart
  \/ RestoreSystemConfigs
  \/ \E service \in ServiceUniverse : RestoreService(service)
  \/ \E user \in UserUniverse : RestoreHome(user)
  \/ RestoreComplete

InitRestoreRun == InitRestore /\ BackupIdle /\ UnitIdle

SpecRestore == InitRestoreRun /\ [][NextRestore]_vars

\* restore_server is called again with the same arguments, after a run has
\* ended: the backup directory, the key, the log and the scratch file are as
\* that run left them.
RestoreAgain ==
  /\ rpc = "done"
  /\ rpc' = "start" /\ result' = "none" /\ ops' = <<>>
  /\ svcDone' = {} /\ userDone' = {}
  /\ services_restored' = <<>> /\ users_restored' = <<>>
  /\ UNCHANGED <<bdirExists, bdir, keyExists, logFile, tmpFile>>
  /\ UNCHANGED <<bvars, uvars>>

NextRestoreAgain ==
  \/ NextRestore
  \/ RestoreAgain

SpecRestoreAgain == InitRestoreRun /\ [][NextRestoreAgain]_vars

\* -------------------------------------------------------------- create_backup

IPs == {"10.0.0.1", "10.0.0.2"}
\* config["servers"], each entry by its ip: one server, two servers, and an
\* entry without ip before a server.
ConfigUniverse == {<<"10.0.0.1">>, <<"10.0.0.1", "10.0.0.2">>, <<"", "10.0.0.1">>}
\* The timestamps of earlier runs; the current run is later than all of them.
HistoryTimes == {1, 2}
Now == CHOOSE t \in 1..(Cardinality(HistoryTimes) + 1) : \A h \in HistoryTimes : h < t
\* What the histories of an inventory snapshot mention, sorted as the parser
\* sorts them: recipes with commands and dump files, and a service without recipe.
ServiceListAt(t) ==
  IF t = 1 THEN <<"docker", "mysql", "redis">> ELSE <<"nginx", "nodejs">>
ServerDir(ip, t, users, services) ==
  [ip |-> ip, date |-> t, users |-> users, services |-> services]
\* An earlier run at time t: an inventory of every server, an inventory of the
\* second server alone, or a backup of every server (no users/ tree).
RunDirs(t) ==
  {[t |-> t, servers |-> {ServerDir(ip, t, TRUE, ServiceListAt(t)) : ip \in IPs}],
   [t |-> t, servers |-> {ServerDir(ip, t, FALSE, <<>>) : ip \in IPs}]}
    \cup (IF t = 1
          THEN {[t |-> t, servers |-> {ServerDir("10.0.0.2", t, TRUE, ServiceListAt(t))}]}
          ELSE {})
Histories ==
  {H \in SUBSET UNION {RunDirs(t) : t \in HistoryTimes} :
     \A d, e \in H : d.t = e.t => d = e}

Account(name, uid, home) == [name |-> name, uid |-> uid, home |-> home]
SystemAccounts == <<Account("root", 0, "/root"), Account("daemon", 1, "/usr/sbin"),
                    Account("nobody", 65534, "/nonexistent")>>
\* /etc/passwd of a backed-up server
PasswdUniverse ==
  {SystemAccounts,
   SystemAccounts \o <<Account("alice", 1000, "/home/alice"), Account("bob", 1001, "/home/bob")>>}

\* The server_ip argument: none (""), a configured server, an unknown one.
TargetIPs == {"", "10.0.0.2", "10.0.0.9"}

InitBackup ==
  /\ ops = <<>> /\ result = "none"
  /\ bpc = [i |-> 0, step |-> "start", k |-> 0]
  /\ servers \in ConfigUniverse
  /\ server_ip \in TargetIPs
  /\ output_dir \in {"default", "explicit"}
  /\ history \in Histories
  /\ lfs = EmptyFs /\ rootMade = FALSE /\ remote = {}
  /\ detected = <<>> /\ enumerated = <<>>

\* The configured servers taken last to first.
SelectedReversed ==
  LET all == SelectSeq(servers, LAMBDA ip : server_ip = "" \/ ip = server_ip)
  IN [i \in 1..Len(all) |-> all[Len(all) + 1 - i]]
\* Every configured server, whatever server_ip is.
SelectedUnfiltered == servers
\* create_backup, line 77: the servers to back up
Selected == SelectSeq(servers, LAMBDA ip : server_ip = "" \/ ip = server_ip)

\* The run directories find_inventory_for_server sees in the working directory:
\* those of earlier runs and, with the default output directory, the backup root
\* itself, named ibr-<now>, with the server directories made so far.
Cwd(fs) ==
  history \cup
    (IF output_dir = "default"
     THEN {[t |-> Now,
            servers |-> {ServerDir(ip, Now, exists(fs, <<ip, "users">>), <<>>) :
                           ip \in {h \in IPs : isdir(fs, <<h>>)}}]}
     ELSE {})

\* `if service in SERVICE_BACKUP_HANDLERS`
HasBackupHandler(service) == service \in DOMAIN SERVICE_BACKUP_HANDLERS

\* create_backup runs the steps of a server in this order.
StepAfterSkippingHomes(step) ==
  CASE step = "services" -> "system"
    [] OTHER -> "begin"
StepAfter(step) ==
  CASE step = "services" -> "homes"
    [] step = "homes" -> "system"
    [] OTHER -> "begin"

BackupOutcomes(n) == FailSets(n, MaxFailures - FailCount(ops))
Done == [i |-> 0, step |-> "done", k |-> 0]

\* create_backup, lines 60-81
BackupStart ==
  /\ bpc.step = "start"
  /\ rootMade' = TRUE
  /\ IF server_ip # "" /\ Selected = <<>>
     THEN result' = "backup_dir" /\ bpc' = Done
     ELSE bpc' = [i |-> 1, step |-> "begin", k |-> 0] /\ UNCHANGED result
  /\ UNCHANGED <<ops, servers, server_ip, output_dir, history, lfs, remote, detected,
                 enumerated>>
  /\ UNCHANGED <<rvars, uvars>>

\* create_backup, lines 84-122: a server entry; its directory, its metadata,
\* the inventory lookup and the analysis
BeginServer ==
  /\ bpc.step = "begin"
  /\ bpc.i <= Len(Selected)
  /\ LET ip == Selected[bpc.i]
     IN IF ip = ""
        THEN /\ bpc' = [i |-> bpc.i + 1, step |-> "begin", k |-> 0]
             /\ UNCHANGED <<lfs, detected>>
        ELSE LET fs1 == WriteFile(ensure_dir(lfs, <<ip>>), <<ip, "server_info.txt">>, <<ip>>)
                 inventory_data == find_inventory_for_server(Cwd(fs1), ip)
                 found == services_detected(Cwd(fs1), ip)
             IN /\ lfs' = IF inventory_data.found
                          THEN WriteFile(fs1, <<ip, "server_analysis.json">>,
                                         analyze_server_history(inventory_data.dir))
                          ELSE fs1
                /\ detected' = (bpc.i :> [inv |-> inventory_data, services |-> found])
                                 @@ detected
                /\ bpc' = IF found = <<>>
                          THEN [i |-> bpc.i, step |-> StepAfter("services"), k |-> 0]
                          ELSE [i |-> bpc.i, step |-> "services", k |-> 1]
  /\ UNCHANGED <<ops, result, servers, server_ip, output_dir, history, rootMade, remote,
                 enumerated>>
  /\ UNCHANGED <<rvars, uvars>>

\* What a step leaves behind, and an exception ends create_backup.
BackupApply(r, next) ==
  /\ ops' = ops \o r.ops
  /\ lfs' = r.fs
  /\ remote' = r.remote
  /\ IF r.raised # "none"
     THEN result' = r.raised /\ bpc' = Done
     ELSE bpc' = next /\ UNCHANGED result

\* create_backup, lines 125-129: one detected service
BackupService ==
  /\ bpc.step = "services"
  /\ LET ip == Selected[bpc.i]
         service == detected[bpc.i].services[bpc.k]
         next == IF bpc.k < Len(detected[bpc.i].services)
                 THEN [bpc EXCEPT !.k = @ + 1]
                 ELSE [i |-> bpc.i, step |-> StepAfter("services"), k |-> 0]
         b == NewBackupRun(lfs, remote)
     IN IF HasBackupHandler(service)
        THEN \E o \in BackupOutcomes(Len(backup_service(b, {}, ip, service).ops)) :
               BackupApply(backup_service(b, o, ip, service), next)
        ELSE BackupApply(b, next)
  /\ UNCHANGED <<servers, server_ip, output_dir, history, rootMade, detected, enumerated>>
  /\ UNCHANGED <<rvars, uvars>>

\* create_backup, line 132
BackupUserHomes ==
  /\ bpc.step = "homes"
  /\ LET ip == Selected[bpc.i]
         b == NewBackupRun(lfs, remote)
     IN \E passwd \in PasswdUniverse :
          \E o \in BackupOutcomes(Len(backup_user_homes(b, {}, ip, passwd).ops)) :
            /\ BackupApply(backup_user_homes(b, o, ip, passwd),
                           [i |-> bpc.i, step |-> StepAfter("homes"), k |-> 0])
            /\ enumerated' = (bpc.i :> run_ssh_command(1 \notin o, AwkUsers(passwd)))
                               @@ enumerated
  /\ UNCHANGED <<servers, server_ip, output_dir, history, rootMade, detected>>
  /\ UNCHANGED <<rvars, uvars>>

\* create_backup, line 135
BackupSystemConfigs ==
  /\ bpc.step = "system"
  /\ LET ip == Selected[bpc.i]
         b == NewBackupRun(lfs, remote)
     IN \E o \in BackupOutcomes(Len(backup_system_configs(b, {}, ip).ops)) :
          BackupApply(backup_system_configs(b, o, ip),
                      [i |-> bpc.i + 1, step |-> StepAfter("system"), k |-> 0])
  /\ UNCHANGED <<servers, server_ip, output_dir, history, rootMade, detected, enumerated>>
  /\ UNCHANGED <<rvars, uvars>>

\* create_backup, line 139
BackupReturn ==
  /\ bpc.step = "begin"
  /\ bpc.i > Len(Selected)
  /\ result' = "backup_dir" /\ bpc' = Done
  /\ UNCHANGED <<ops, servers, server_ip, output_dir, history, lfs, rootMade, remote,
                 detected, enumerated>>
  /\ UNCHANGED <<rvars, uvars>>

NextBackup ==
  \/ BackupStart
  \/ BeginServer
  \/ BackupService
  \/ BackupUserHomes
  \/ BackupSystemConfigs
  \/ BackupReturn

InitBackupRun == InitBackup /\ RestoreIdle /\ UnitIdle

SpecBackup == InitBackupRun /\ [][NextBackup]_vars

\* ------------------------------------------------------- restore: claims

\* The connectivity probe is the first remote operation of a run.
ProbeIssued == Len(ops) >= 1 /\ ops[1].ctx.phase = "probe"
PreconditionFailed == ~bdirExists \/ ~keyExists \/ (ProbeIssued /\ ~ops[1].ok)
PreconditionsPassed == bdirExists /\ keyExists /\ ProbeIssued /\ ops[1].ok

\* C1: when the backup directory is missing, the SSH key file is missing or the
\* connectivity probe fails, restore_server returns False and has changed
\* nothing: no restore log, no local file, no remote operation but the probe.
C1_AbortBeforeMutation ==
  (PreconditionFailed /\ rpc # "start") =>
     /\ rpc = "done" /\ result = "False"
     /\ logFile = NoLog
     /\ ~tmpFile
     /\ \A i \in DOMAIN ops : ops[i].ctx.phase = "probe" /\ ops[i].kind = "cmd"
     /\ Len(ops) <= 1
     /\ (~bdirExists \/ ~keyExists => ops = <<>>)

\* C1, the case reached: the probe was issued, failed, and the run ended.
C1_Witness ==
  /\ rpc = "done" /\ bdirExists /\ keyExists
  /\ ProbeIssued /\ ~ops[1].ok /\ result = "False"

\* C2: once the preconditions pass, restore_server returns True whatever the
\* remote operations do and whatever the backup holds.
C2_AlwaysReturnsTrue ==
  (PreconditionsPassed /\ rpc = "done") => result = "True"

PhaseRank(phase) ==
  CASE phase = "probe" -> 0
    [] phase = "system" -> 1
    [] phase = "service" -> 2
    [] phase = "home" -> 3

\* C3: in every restore run the system-configuration pushes come before every
\* operation of a service restore, and every service restore operation comes
\* before every user-home operation.
C3_PhasesInOrder ==
  \A i, j \in DOMAIN ops :
     i < j => PhaseRank(ops[i].ctx.phase) <= PhaseRank(ops[j].ctx.phase)

\* C3, the case reached: a finished run with operations of all three phases.
C3_Witness ==
  /\ result = "True"
  /\ \E i, j, k \in DOMAIN ops :
       /\ ops[i].ctx.phase = "system" /\ ops[i].kind = "push"
       /\ ops[j].ctx.phase = "service"
       /\ ops[k].ctx.phase = "home" /\ ops[k].kind = "push"

\* -------------------------------------------------------- backup: claims

\* The accounts of the enumeration alone, as backup_user_homes takes them.
get_users_enumerated_only(output) ==
  LET lines == IF Truthy(output) THEN SelectSeq(output.val, LAMBDA parts : Len(parts) >= 2)
               ELSE <<>>
  IN [i \in 1..Len(lines) |-> [username |-> lines[i][1], home |-> lines[i][2]]]

\* get_users(ip, ssh_key_path) of the Inventory Collector, from the output of
\* the account enumeration command
get_users(output) ==
  LET lines == IF Truthy(output) THEN SelectSeq(output.val, LAMBDA parts : Len(parts) >= 2)
               ELSE <<>>
  IN [i \in 1..Len(lines) |-> [username |-> lines[i][1], home |-> lines[i][2]]]
       \o <<[username |-> "root", home |-> "/root"]>>

BackupReturned == bpc.step = "done" /\ result # "none"
\* The servers create_backup has finished with
Completed(i) ==
  /\ i \in DOMAIN Selected
  /\ Selected[i] # ""
  /\ \/ bpc.step = "done" /\ result = "backup_dir"
     \/ bpc.step \notin {"start", "done"} /\ i < bpc.i
Attempted(op) == \E j \in DOMAIN ops : [ops[j] EXCEPT !.ok = TRUE] = [op EXCEPT !.ok = TRUE]
AllAttempted(opseq) == \A n \in DOMAIN opseq : Attempted(opseq[n])
FreshRun == NewBackupRun(EmptyFs, {})
PulledUsers(ip) ==
  {ops[j].ctx.unit : j \in {n \in DOMAIN ops : /\ ops[n].kind = "pull"
                                               /\ ops[n].ctx.phase = "homes"
                                               /\ ops[n].ctx.host = ip}}

\* C4: whichever remote operations fail, create_backup returns the backup root,
\* and for every server with an ip every path, command and file of every
\* detected service with a recipe, the account enumeration, the pull of every
\* enumerated home, every system path and command were attempted and the
\* summary was written.
C4_FailuresNeverAbort ==
  BackupReturned =>
    /\ result = "backup_dir"
    /\ \A i \in DOMAIN Selected :
         Selected[i] # "" =>
           LET ip == Selected[i]
           IN /\ i \in DOMAIN detected /\ i \in DOMAIN enumerated
              /\ \A k \in DOMAIN detected[i].services :
                   HasBackupHandler(detected[i].services[k]) =>
                     AllAttempted(backup_service(FreshRun, {}, ip, detected[i].services[k]).ops)
              /\ Attempted(CmdOp(Ctx("homes", ip, ""), UserCmd, TRUE))
              /\ Truthy(enumerated[i]) =>
                   \A n \in DOMAIN enumerated[i].val :
                     enumerated[i].val[n][1] \in PulledUsers(ip)
              /\ AllAttempted(backup_system_configs(FreshRun, {}, ip).ops)
              /\ <<ip, "backup_summary.json">> \in DOMAIN lfs.files
C4_Witness ==
  /\ result = "backup_dir"
  /\ Len(Selected) = 2
  /\ \E j \in DOMAIN ops :
       /\ ~ops[j].ok
       /\ ops[j].ctx.phase = "service"
       /\ ops[j].ctx.host = Selected[1]
       /\ j < Len(ops)

\* The newest run directory of an earlier run that holds an inventory snapshot
\* (a server directory with a users/ tree) of the ip.
PriorInventory(ip) ==
  LET hits == {d \in history : \E sd \in d.servers : sd.ip = ip /\ sd.users}
  IN IF hits = {} THEN NoInventory
     ELSE LET d == CHOOSE e \in hits : \A f \in hits : f.t <= e.t
          IN [found |-> TRUE, t |-> d.t,
              dir |-> CHOOSE sd \in d.servers : sd.ip = ip /\ sd.users]
\* C5: the inventory create_backup selects for a server is the most recent
\* prior inventory snapshot of its ip, never the directory of the current run
\* and never a backup snapshot, and its services list is the detected list.
C5_SelectsPriorInventory ==
  \A i \in DOMAIN detected :
    LET prior == PriorInventory(Selected[i])
    IN /\ detected[i].inv = prior
       /\ detected[i].services = prior.dir.services

SummaryOf(ip) == lfs.files[<<ip, "backup_summary.json">>]
Started(ip, service) == \E j \in DOMAIN ops : ops[j].ctx = Ctx("service", ip, service)
\* C6: once a server's backup has ended, its summary lists exactly the
\* subdirectories of services/ and of homes/: every service whose backup
\* started, also when its pulls failed, and no service that never started.
C6_SummaryMatchesTree ==
  \A i \in DOMAIN Selected :
    Completed(i) =>
      LET ip == Selected[i]
      IN /\ <<ip, "backup_summary.json">> \in DOMAIN lfs.files
         /\ SummaryOf(ip).services = Subdirs(lfs, <<ip, "services">>)
         /\ SummaryOf(ip).users = Subdirs(lfs, <<ip, "homes">>)
         /\ \A service \in ServiceUniverse :
              Started(ip, service) <=> service \in SummaryOf(ip).services
C6_Witness ==
  \E i \in DOMAIN Selected :
    /\ Completed(i)
    /\ \E j \in DOMAIN ops :
         /\ ops[j].kind = "pull" /\ ~ops[j].ok
         /\ ops[j].ctx.phase = "service" /\ ops[j].ctx.host = Selected[i]
         /\ ops[j].ctx.unit \in SummaryOf(Selected[i]).services
    /\ \E k \in DOMAIN detected[i].services :
         detected[i].services[k] \notin SummaryOf(Selected[i]).services

\* C7: after a backup in which every remote operation succeeded, each dump
\* file of a backed-up recipe exists locally at services/<name>/files/<basename>.
C7_DumpRetrieved ==
  (result = "backup_dir" /\ FailCount(ops) = 0) =>
    \A i \in DOMAIN detected :
      \A k \in DOMAIN detected[i].services :
        LET service == detected[i].services[k]
        IN HasBackupHandler(service) =>
             \A n \in DOMAIN BackupRecipe(service, "files") :
               LET file_path == BackupRecipe(service, "files")[n]
               IN <<Selected[i], "services", service, "files", file_path[Len(file_path)]>>
                    \in DOMAIN lfs.files

\* C8: every server create_backup has finished with had its account
\* enumeration and its system paths and commands attempted whatever was
\* detected, and a detected service without a recipe has no services/<name>
\* directory.
C8_HomesAndSystemAlways ==
  /\ \A i \in DOMAIN Selected :
       Completed(i) =>
         /\ Attempted(CmdOp(Ctx("homes", Selected[i], ""), UserCmd, TRUE))
         /\ AllAttempted(backup_system_configs(FreshRun, {}, Selected[i]).ops)
  /\ \A i \in DOMAIN detected :
       \A k \in DOMAIN detected[i].services :
         ~HasBackupHandler(detected[i].services[k]) =>
           ~exists(lfs, <<Selected[i], "services", detected[i].services[k]>>)
C8_Witness ==
  /\ result = "backup_dir"
  /\ \E i, j \in DOMAIN detected :
       /\ ~detected[i].inv.found
       /\ "redis" \in Range(detected[j].services)

\* C9: the accounts whose homes the backup pulls are the accounts get_users
\* returns for the same output of the enumeration command.
C9_SameAccountsAsInventory ==
  \A i \in DOMAIN enumerated :
    PulledUsers(Selected[i]) = {u.username : u \in Range(get_users(enumerated[i]))}

\* C10: at the end of the backup the output of every recipe command that
\* succeeded is held by a file of the service's backup directory.
C10_OutputsPersisted ==
  result = "backup_dir" =>
    \A j \in DOMAIN ops :
      (/\ ops[j].kind = "cmd" /\ ops[j].ok /\ ops[j].ctx.phase = "service"
       /\ ops[j].cmd \in Range(BackupRecipe(ops[j].ctx.unit, "commands"))) =>
        \E p \in DOMAIN lfs.files :
          /\ Len(p) = 4
          /\ SubSeq(p, 1, 3) = <<ops[j].ctx.host, "services", ops[j].ctx.unit>>
          /\ lfs.files[p] = Stdout(ops[j].cmd)

\* C11: a server entry without ip gets no server directory and no remote
\* operation while the servers after it are processed; a server_ip that
\* matches no configured server makes create_backup return the backup root
\* with no server directory and no remote operation.
C11_SkipsAndUnknownTarget ==
  /\ \A j \in DOMAIN ops : ops[j].ctx.host # ""
  /\ \A p \in lfs.dirs : p # <<>> => Head(p) # ""
  /\ (result = "backup_dir" /\ server_ip = "") =>
       \A i \in DOMAIN servers :
         servers[i] # "" =>
           /\ isdir(lfs, <<servers[i]>>)
           /\ Attempted(CmdOp(Ctx("homes", servers[i], ""), UserCmd, TRUE))
  /\ (server_ip # "" /\ \A i \in DOMAIN servers : servers[i] # server_ip) =>
       /\ ops = <<>> /\ lfs = EmptyFs
       /\ bpc.step # "start" => (result = "backup_dir" /\ rootMade /\ bpc.step = "done")
C11_Witness ==
  /\ result = "backup_dir"
  /\ servers[1] = "" /\ Len(servers) = 2
  /\ isdir(lfs, <<servers[2]>>)
  /\ \E j \in DOMAIN ops : ops[j].ctx.host = servers[2]
C11_UnknownTargetReturned ==
  /\ result = "backup_dir" /\ server_ip = "10.0.0.9" /\ Len(servers) = 2 /\ rootMade

\* C12: no step of a restore run, and no later run, changes the tree under the
\* backup directory, the restore log apart.
C12_BackupTreeUnchanged == [][bdir' = bdir /\ bdirExists' = bdirExists]_vars
C12_Witness ==
  /\ rpc = "done" /\ result = "NameError"
  /\ tmpFile /\ logFile.present
  /\ \E j \in DOMAIN ops : ops[j].kind = "push" /\ ops[j].ok

\* C13: every step of every restore run leaves the lines the restore log
\* already held in place and only adds lines after them.
C13_LogAppendOnly == [][IsPrefix(logFile.lines, logFile'.lines)]_vars

\* ------------------------------------------------------ inventory collector

\* The lines the enumeration command may print, each as line.strip().split(":")
\* gives it: accounts, an account with an empty home, a line without ":".
EnumLines == {<<"alice", "/home/alice">>, <<"bob", "/home/bob">>, <<"carol", "">>,
              <<"garbage">>}
\* What run_ssh_command returns for it: None, "", or lines in some order.
EnumOutputs ==
  {NoneResult} \cup
    {run_ssh_command(TRUE, q) : q \in UNION {ListingOrders(S) : S \in SUBSET EnumLines}}

\* A piece of text between separators: whether blanks surround it, and its
\* text, as a leading "%" before the rest or as the name alone; <<>> is empty.
Item(pad, text) == [pad |-> pad, text |-> text]
strip(item) == item.text
GroupMembers == {Item(FALSE, <<"alice">>), Item(TRUE, <<"bob">>), Item(FALSE, <<>>),
                 Item(TRUE, <<"alice">>)}
SudoersLines == {Item(FALSE, <<"root">>), Item(TRUE, <<"alice">>),
                 Item(FALSE, <<"%", "admin">>), Item(TRUE, <<>>)}
SudoInputs ==
  [sudo_group : {NoneResult} \cup
                  {run_ssh_command(TRUE, q) :
                     q \in UNION {ListingOrders(S) : S \in SUBSET GroupMembers}},
   sudoers : {NoneResult} \cup
               {run_ssh_command(TRUE, q) :
                  q \in UNION {ListingOrders(S) : S \in SUBSET SudoersLines}}]

\* (run_ssh_command(...) or "").split(","): "" splits into one empty member
SplitComma(output) == IF Truthy(output) THEN output.val ELSE <<Item(FALSE, <<>>)>>
\* (run_ssh_command(...) or "").splitlines()
SplitLines(output) == IF Truthy(output) THEN output.val ELSE <<>>

\* The members and the entries together, group entries included.
sudo_users_with_groups(sudo_group, sudoers) ==
  {strip(u) : u \in {m \in Range(SplitComma(sudo_group)) : strip(m) # <<>>}}
    \cup {strip(u) : u \in {l \in Range(SplitLines(sudoers)) : strip(l) # <<>>}}
\* get_sudo_users: the set sudo_users before list(sudo_users)
sudo_users(sudo_group, sudoers) ==
  {strip(u) : u \in {m \in Range(SplitComma(sudo_group)) : strip(m) # <<>>}}
    \cup {strip(u) : u \in {l \in Range(SplitLines(sudoers)) :
                              strip(l) # <<>> /\ Head(strip(l)) # "%"}}

InitCollector ==
  /\ ops = <<>> /\ result = "none"
  /\ ret = NotReturned /\ loc = <<>>
  /\ \/ fn = "get_users" /\ arg \in EnumOutputs
     \/ fn = "get_sudo_users" /\ arg \in SudoInputs

\* get_users(ip, ssh_key_path)
GetUsers ==
  /\ fn = "get_users" /\ ~ret.done
  /\ ret' = Returned(get_users(arg))
  /\ UNCHANGED <<ops, result, rvars, bvars, fn, arg, loc>>

\* get_sudo_users(ip, ssh_key_path): list(sudo_users) is in any order
GetSudoUsers ==
  /\ fn = "get_sudo_users" /\ ~ret.done
  /\ \E q \in ListingOrders(sudo_users(arg.sudo_group, arg.sudoers)) : ret' = Returned(q)
  /\ UNCHANGED <<ops, result, rvars, bvars, fn, arg, loc>>

NextCollector ==
  \/ GetUsers
  \/ GetSudoUsers

InitCollectorRun == InitCollector /\ RestoreIdle /\ BackupIdle

SpecCollector == InitCollectorRun /\ [][NextCollector]_vars

\* C14: get_users returns the reported accounts in the order reported, then
\* root as its last element, and root occurs exactly once, whatever the
\* enumeration returned.
C14_RootAppendedOnce ==
  (fn = "get_users" /\ ret.done) =>
    LET users == ret.val
        reported == SplitLines(arg)
        \* the positions of the reported lines that name an account
        at == {i \in DOMAIN reported : Len(reported[i]) >= 2}
    IN /\ Len(users) = Cardinality(at) + 1
       /\ users[Len(users)] = [username |-> "root", home |-> "/root"]
       /\ Cardinality({i \in DOMAIN users : users[i].username = "root"}) = 1
       /\ \A i \in at :
            LET n == Cardinality({j \in at : j <= i})
            IN users[n] = [username |-> reported[i][1], home |-> reported[i][2]]
C14_Witness ==
  /\ fn = "get_users" /\ ret.done
  /\ Len(ret.val) = 3
  /\ \E i \in DOMAIN arg.val : Len(arg.val[i]) < 2
C14_WitnessFailed == fn = "get_users" /\ ret.done /\ ~arg.some /\ Len(ret.val) = 1

\* C15: get_sudo_users returns, each once, exactly the non-empty members of
\* the group query and the non-empty entries of the sudoers query that do not
\* start with "%"; a failed or empty query contributes nothing.
C15_SudoUsersUnion ==
  (fn = "get_sudo_users" /\ ret.done) =>
    /\ \A i, j \in DOMAIN ret.val : ret.val[i] = ret.val[j] => i = j
    /\ \A i \in DOMAIN ret.val : ret.val[i] # <<>>
    /\ \A name \in {m.text : m \in GroupMembers \cup SudoersLines} :
         name \in Range(ret.val) <=>
           /\ name # <<>>
           /\ \/ arg.sudo_group.some /\ \E i \in DOMAIN arg.sudo_group.val :
                                          arg.sudo_group.val[i].text = name
              \/ /\ arg.sudoers.some
                 /\ Head(name) # "%"
                 /\ \E i \in DOMAIN arg.sudoers.val : arg.sudoers.val[i].text = name
    /\ \A i \in DOMAIN ret.val : ret.val[i] \in {m.text : m \in GroupMembers \cup SudoersLines}
C15_Witness ==
  /\ fn = "get_sudo_users" /\ ret.done
  /\ ~arg.sudo_group.some /\ arg.sudoers.some
  /\ \E i \in DOMAIN arg.sudoers.val : arg.sudoers.val[i].text = <<"%", "admin">>
  /\ Range(ret.val) = {<<"root">>, <<"alice">>}

\* --------------------------------------------------------- history parser
\* A history line is its tokens, separated by single blanks. A token is a word,
\* made of the characters of [a-zA-Z0-9\-] alone, or an image reference
\* "name:tag".

Images == {"nginx:1.25", "8080:80"}
\* ([a-zA-Z0-9\-\.]+) at the start of a token takes the token up to its ":"
ClassPrefix(tok) ==
  CASE tok = "nginx:1.25" -> "nginx"
    [] tok = "8080:80" -> "8080"
    [] OTHER -> tok
ItemAt(line, j) == IF j <= Len(line) THEN ClassPrefix(line[j]) ELSE ""

\* A pattern: the tokens its command part matches, the tokens its verb part
\* matches ({} when it has none), its optional flag ("" when it has none), and
\* what its last group takes: the token after the verb ("item"), the verb
\* after a word ("action"), an image reference after the verb ("image") or
\* after any tokens ("image_after").
Pattern(cmd, verb, flag, last) == [cmd |-> cmd, verb |-> verb, flag |-> flag, last |-> last]
Install(cmd, flag) == Pattern(cmd, {"install"}, flag, "item")
PACKAGE_PATTERNS ==
  [apt |-> <<Install({"apt", "apt-get"}, ""), Install({"apt", "apt-get"}, "-y")>>,
   yum |-> <<Install({"yum"}, ""), Install({"yum"}, "-y")>>,
   dnf |-> <<Install({"dnf"}, ""), Install({"dnf"}, "-y")>>,
   pip |-> <<Install({"pip"}, ""), Install({"pip3"}, "")>>,
   npm |-> <<Install({"npm"}, "-g")>>,
   docker |-> <<Pattern({"docker"}, {"run"}, "", "image_after"),
                Pattern({"docker"}, {"pull"}, "", "image")>>]
SERVICE_PATTERNS ==
  <<Pattern({"systemctl"}, {"start", "enable", "restart", "status"}, "", "item"),
    Pattern({"service"}, {"start", "restart", "stop", "status"}, "", "action")>>
USER_PATTERNS ==
  <<Pattern({"useradd"}, {}, "-m", "item"), Pattern({"adduser"}, {}, "", "item")>>

\* The text of match.group(match.lastindex) when the pattern matches with its
\* command part at token i, "" when it does not match there.
MatchAt(line, pat, i) ==
  IF line[i] \notin pat.cmd THEN ""
  ELSE IF pat.last = "action"
  THEN IF i + 2 <= Len(line) /\ line[i + 1] \notin Images /\ line[i + 2] \in pat.verb
       THEN line[i + 2] ELSE ""
  ELSE IF pat.verb # {} /\ ~(i + 1 <= Len(line) /\ line[i + 1] \in pat.verb) THEN ""
  ELSE LET k == IF pat.verb = {} THEN i + 1 ELSE i + 2
       IN CASE pat.last = "image" ->
                 IF k <= Len(line) /\ line[k] \in Images THEN line[k] ELSE ""
            [] pat.last = "image_after" ->
                 \* `.*` is greedy: the last image reference that has a token
                 \* between it and the verb
                 LET at == {j \in (k + 1)..Len(line) : line[j] \in Images}
                 IN IF at = {} THEN "" ELSE line[CHOOSE j \in at : \A h \in at : h <= j]
            [] OTHER ->
                 \* the optional flag group is tried first, and given up when
                 \* no item follows it
                 IF pat.flag # "" /\ k + 1 <= Len(line) /\ line[k] = pat.flag
                 THEN ClassPrefix(line[k + 1])
                 ELSE ItemAt(line, k)

\* re.search(pattern, line): the leftmost match
search(pat, line) ==
  LET at == {i \in DOMAIN line : MatchAt(line, pat, i) # ""}
  IN IF at = {} THEN "" ELSE MatchAt(line, pat, CHOOSE i \in at : \A h \in at : i <= h)

\* The strings the patterns can extract from the lines modelled, as Python
\* orders strings.
Lexicographic ==
  <<"-g", "-la", "-m", "-y", "8080:80", "alice", "deploy", "flask", "mysql", "nginx",
    "nginx:1.25", "pm2", "redis", "restart", "start", "status", "stop", "update">>
Rank(x) == CHOOSE i \in DOMAIN Lexicographic : Lexicographic[i] = x
RECURSIVE Insert(_, _)
Insert(q, x) ==
  IF q = <<>> THEN <<x>>
  ELSE IF Rank(x) <= Rank(Head(q)) THEN <<x>> \o q
  ELSE <<Head(q)>> \o Insert(Tail(q), x)
RECURSIVE sorted(_)
\* sorted(list)
sorted(q) == IF q = <<>> THEN <<>> ELSE Insert(sorted(Tail(q)), Head(q))
Reverse(q) == [i \in 1..Len(q) |-> q[Len(q) + 1 - i]]
\* list(set): the elements in an order the set's iteration gives
list(S, flip) == IF flip THEN Reverse(SetToSeq(S)) ELSE SetToSeq(S)

\* The matches in the order the set gives them.
find_matches_unsorted(lines, patterns, flip) ==
  list({search(patterns[n], lines[i]) : n \in DOMAIN patterns, i \in DOMAIN lines} \ {""},
       flip)
\* find_matches(lines, patterns)
find_matches(lines, patterns, flip) ==
  sorted(list({search(patterns[n], lines[i]) : n \in DOMAIN patterns, i \in DOMAIN lines}
                \ {""},
              flip))

\* A history file: whether it exists, and its lines (none: zero length).
File(present, lines) == [exists |-> present, lines |-> lines]
NoPackages == [m \in {} |-> <<>>]
\* parse_bash_history(history_file)
parse_bash_history(file, flip) ==
  IF ~file.exists \/ file.lines = <<>>
  THEN [packages |-> NoPackages, services |-> <<>>, users |-> <<>>]
  ELSE [packages |-> [m \in DOMAIN PACKAGE_PATTERNS |->
                        find_matches(file.lines, PACKAGE_PATTERNS[m], flip)],
        services |-> find_matches(file.lines, SERVICE_PATTERNS, flip),
        users |-> find_matches(file.lines, USER_PATTERNS, flip)]

\* Each consolidated category as the last user's analysis has it.
consolidate_last_user(by_user, flip) ==
  IF DOMAIN by_user = {}
  THEN [packages |-> NoPackages, services |-> <<>>, users_created |-> <<>>,
        by_user |-> by_user]
  ELSE LET u == CHOOSE x \in DOMAIN by_user : TRUE
       IN [packages |-> by_user[u].packages, services |-> by_user[u].services,
           users_created |-> by_user[u].users, by_user |-> by_user]
\* analyze_server_history, lines 139-163: the consolidation of the analyses
consolidate(by_user, flip) ==
  LET managers == UNION {DOMAIN by_user[u].packages : u \in DOMAIN by_user}
      Having(m) == {u \in DOMAIN by_user : m \in DOMAIN by_user[u].packages}
      PackagesOf(m) == UNION {Range(by_user[u].packages[m]) : u \in Having(m)}
  IN [packages |-> [m \in managers |-> sorted(list(PackagesOf(m), flip))],
      services |-> sorted(list(UNION {Range(by_user[u].services) : u \in DOMAIN by_user},
                               flip)),
      users_created |-> sorted(list(UNION {Range(by_user[u].users) : u \in DOMAIN by_user},
                                    flip)),
      by_user |-> by_user]
\* analyze_server_history(server_dir) over an existing users/ directory: each
\* user of it with its bash_history file
analyze_users(users_dir, flip) ==
  consolidate([u \in {x \in DOMAIN users_dir : users_dir[x].exists} |->
                 parse_bash_history(users_dir[u], flip)],
              flip)

MaxLines == 2
HistoryLines ==
  {<<"sudo", "apt-get", "install", "-y", "nginx">>, <<"apt", "install", "redis">>,
   <<"yum", "install", "-y", "nginx">>, <<"pip3", "install", "flask">>,
   <<"npm", "install", "-g", "pm2">>,
   <<"docker", "run", "-d", "-p", "8080:80", "nginx:1.25">>,
   <<"docker", "pull", "nginx:1.25">>, <<"systemctl", "restart", "nginx">>,
   <<"service", "mysql", "start">>, <<"useradd", "-m", "deploy">>, <<"adduser", "alice">>,
   <<"ls", "-la">>, <<"apt-get", "update">>}
HistoryFiles ==
  {File(FALSE, <<>>)} \cup
    {File(TRUE, q) : q \in UNION {[1..n -> HistoryLines] : n \in 0..MaxLines}}
\* The users/ directory of a server snapshot: per user a bash_history file,
\* missing, empty, or with lines.
SnapshotUsers == {"alice", "bob", "root"}
UserHistories ==
  {File(FALSE, <<>>), File(TRUE, <<>>),
   File(TRUE, << <<"sudo", "apt-get", "install", "-y", "nginx">> >>),
   File(TRUE, << <<"apt", "install", "redis">>, <<"systemctl", "restart", "nginx">> >>),
   File(TRUE, << <<"useradd", "-m", "deploy">>, <<"yum", "install", "-y", "nginx">> >>),
   File(TRUE, << <<"service", "mysql", "start">>, <<"adduser", "alice">>,
                 <<"npm", "install", "-g", "pm2">> >>)}

InitParser ==
  /\ ops = <<>> /\ result = "none"
  /\ ret = NotReturned /\ loc = <<>>
  /\ \/ fn = "parse_bash_history" /\ arg \in HistoryFiles
     \/ fn = "analyze_server_history" /\ arg \in [SnapshotUsers -> UserHistories]

\* parse_bash_history(history_file), called twice on the same file
ParseHistory ==
  /\ fn = "parse_bash_history" /\ ~ret.done
  /\ \E flip1, flip2 \in BOOLEAN :
       ret' = Returned([first |-> parse_bash_history(arg, flip1),
                        second |-> parse_bash_history(arg, flip2)])
  /\ UNCHANGED <<ops, result, rvars, bvars, fn, arg, loc>>

\* analyze_server_history(server_dir)
AnalyzeServer ==
  /\ fn = "analyze_server_history" /\ ~ret.done
  /\ \E flip \in BOOLEAN : ret' = Returned(analyze_users(arg, flip))
  /\ UNCHANGED <<ops, result, rvars, bvars, fn, arg, loc>>

NextParser ==
  \/ ParseHistory
  \/ AnalyzeServer

InitParserRun == InitParser /\ RestoreIdle /\ BackupIdle

SpecParser == InitParserRun /\ [][NextParser]_vars

StrictlySorted(q) == \A i, j \in DOMAIN q : i < j => Rank(q[i]) < Rank(q[j])
AllSorted(a) ==
  /\ \A m \in DOMAIN a.packages : StrictlySorted(a.packages[m])
  /\ StrictlySorted(a.services)
  /\ StrictlySorted(a.users)

\* C16: parse_bash_history returns sorted, duplicate-free collections, the
\* same ones when the same file is parsed again, and three empty collections
\* for a missing or zero-length file.
C16_SortedDeterministic ==
  (fn = "parse_bash_history" /\ ret.done) =>
    /\ ret.val.first = ret.val.second
    /\ AllSorted(ret.val.first)
    /\ (~arg.exists \/ arg.lines = <<>>) =>
         /\ DOMAIN ret.val.first.packages = {}
         /\ ret.val.first.services = <<>>
         /\ ret.val.first.users = <<>>
C16_Witness ==
  /\ fn = "parse_bash_history" /\ ret.done
  /\ arg.exists /\ Len(arg.lines) = 2
  /\ Len(ret.val.first.packages.apt) = 3
C16_WitnessMissing == fn = "parse_bash_history" /\ ret.done /\ ~arg.exists

Flags == {"-y", "-g", "-m"}
\* C17: from a line that installs a package or creates a user with a flag
\* before the name, the name is extracted and the flag is not.
C17_FlagNotExtracted ==
  (fn = "parse_bash_history" /\ ret.done /\ arg.exists /\ arg.lines # <<>>) =>
    LET a == ret.val.first
    IN /\ \A m \in DOMAIN a.packages : Range(a.packages[m]) \cap Flags = {}
       /\ Range(a.users) \cap Flags = {}
       /\ <<"sudo", "apt-get", "install", "-y", "nginx">> \in Range(arg.lines)
            => "nginx" \in Range(a.packages.apt)
       /\ <<"useradd", "-m", "deploy">> \in Range(arg.lines) => "deploy" \in Range(a.users)

\* C18: the consolidated packages of each manager, services and users_created
\* are the sorted unions over the users that have a history file, and by_user
\* holds the analysis of each of these users.
C18_ConsolidationIsUnion ==
  (fn = "analyze_server_history" /\ ret.done) =>
    LET a == ret.val
        with_file == {u \in SnapshotUsers : arg[u].exists}
        Own(u) == parse_bash_history(arg[u], FALSE)
    IN /\ DOMAIN a.by_user = with_file
       /\ \A u \in with_file : a.by_user[u] = Own(u)
       /\ \A x \in Range(Lexicographic) :
            /\ x \in Range(a.services) <=> \E u \in with_file : x \in Range(Own(u).services)
            /\ x \in Range(a.users_created) <=> \E u \in with_file : x \in Range(Own(u).users)
            /\ \A m \in DOMAIN PACKAGE_PATTERNS :
                 (m \in DOMAIN a.packages /\ x \in Range(a.packages[m])) <=>
                   \E u \in with_file :
                     m \in DOMAIN Own(u).packages /\ x \in Range(Own(u).packages[m])
       /\ StrictlySorted(a.services) /\ StrictlySorted(a.users_created)
       /\ \A m \in DOMAIN a.packages : StrictlySorted(a.packages[m])
C18_Witness ==
  /\ fn = "analyze_server_history" /\ ret.done
  /\ ~arg["bob"].exists /\ arg["alice"].exists /\ arg["root"].exists
  /\ ret.val.by_user["alice"].services # ret.val.by_user["root"].services
  /\ Len(ret.val.services) >= 1
  /\ Len(ret.val.packages.apt) >= 3

\* ------------------------------------------------------------ scp_get_file

Absent == [exists |-> FALSE, size |-> 0]
Present(size) == [exists |-> TRUE, size |-> size]
\* What a call of scp_get_file meets: the exit code of scp, the bytes it left
\* in the scratch file, whether it removed the scratch file, whether
\* subprocess.run itself raises, whether shutil.copy raises, and the file at
\* local_path before the call.
ScpInputs ==
  [rc : {0, 1}, written : {0, 1, 2}, removes : BOOLEAN, run_raises : BOOLEAN,
   copy_raises : BOOLEAN, target : {Absent, Present(1)}]

InitScp ==
  /\ ops = <<>> /\ result = "none"
  /\ ret = NotReturned
  /\ fn = "scp_get_file"
  /\ arg \in ScpInputs
  /\ loc = [pc |-> "create", temp |-> Absent, target |-> arg.target, value |-> FALSE]

\* The copy is taken whatever the size of the scratch file.
RetrievedAnySize(returncode, temp) == returncode = 0 /\ temp.exists
\* result.returncode == 0 and os.path.exists(temp_path) and
\* os.path.getsize(temp_path) > 0
Retrieved(returncode, temp) == returncode = 0 /\ temp.exists /\ temp.size > 0

\* scp_get_file, lines 65-66: tempfile.NamedTemporaryFile(delete=False)
ScpCreateTemp ==
  /\ fn = "scp_get_file" /\ loc.pc = "create"
  /\ loc' = [loc EXCEPT !.pc = "scp", !.temp = Present(0)]
  /\ UNCHANGED <<ops, result, rvars, bvars, fn, arg, ret>>

\* scp_get_file, lines 70-76: subprocess.run(["scp", ...], check=False)
ScpRun ==
  /\ fn = "scp_get_file" /\ loc.pc = "scp"
  /\ IF arg.run_raises
     THEN \* except Exception: return False
          loc' = [loc EXCEPT !.pc = "finally", !.value = FALSE]
     ELSE loc' = [loc EXCEPT !.pc = "check",
                             !.temp = IF arg.removes THEN Absent ELSE Present(arg.written)]
  /\ UNCHANGED <<ops, result, rvars, bvars, fn, arg, ret>>

\* scp_get_file, lines 79-88: the check, and shutil.copy(temp_path, local_path)
ScpCheck ==
  /\ fn = "scp_get_file" /\ loc.pc = "check"
  /\ IF Retrieved(arg.rc, loc.temp)
     THEN IF arg.copy_raises
          THEN loc' = [loc EXCEPT !.pc = "finally", !.value = FALSE]
          ELSE loc' = [loc EXCEPT !.pc = "finally", !.value = TRUE,
                                  !.target = Present(loc.temp.size)]
     ELSE loc' = [loc EXCEPT !.pc = "finally", !.value = FALSE]
  /\ UNCHANGED <<ops, result, rvars, bvars, fn, arg, ret>>

\* scp_get_file, lines 89-92: finally, os.unlink(temp_path) if it exists; then
\* the function returns
ScpFinally ==
  /\ fn = "scp_get_file" /\ loc.pc = "finally"
  /\ loc' = [loc EXCEPT !.pc = "returned", !.temp = Absent]
  /\ ret' = Returned(loc.value)
  /\ UNCHANGED <<ops, result, rvars, bvars, fn, arg>>

NextScp ==
  \/ ScpCreateTemp
  \/ ScpRun
  \/ ScpCheck
  \/ ScpFinally

InitScpRun == InitScp /\ RestoreIdle /\ BackupIdle

SpecScp == InitScpRun /\ [][NextScp]_vars

\* C19: when scp_get_file has returned, its scratch file does not exist, and
\* it returned True only if scp exited with 0 and left a non-empty file, which
\* is then the file at local_path.
C19_ScratchRemoved ==
  (fn = "scp_get_file" /\ ret.done) =>
    /\ ~loc.temp.exists
    /\ ret.val = TRUE =>
         /\ arg.rc = 0 /\ ~arg.run_raises /\ ~arg.removes
         /\ arg.written > 0
         /\ loc.target = Present(arg.written)
    /\ ret.val = FALSE => loc.target = arg.target
C19_Witness ==
  /\ fn = "scp_get_file" /\ ret.done /\ ret.val = FALSE
  /\ arg.rc = 0 /\ arg.written = 0 /\ ~arg.run_raises /\ ~arg.removes
C19_WitnessCopied == fn = "scp_get_file" /\ ret.done /\ ret.val = TRUE

\* ------------------------------------------------- restore: installation

\* C20: when restore_service found the binary of a service missing (it then
\* asks for apt) and apt is present, the apt installation command of that
\* service follows; when apt is absent and yum is present, the yum one follows.
C20_InstallsWhenMissing ==
  \A j \in DOMAIN ops :
    (ops[j].ctx.phase = "service" /\ ops[j].cmd = <<"which", "apt">>) =>
      LET service == ops[j].ctx.unit
          InstallAfter(n, cmd) ==
            \E k \in DOMAIN ops : k > n /\ ops[k].ctx = ops[j].ctx /\ ops[k].cmd = cmd
      IN /\ ops[j].ok =>
              InstallAfter(j, <<"apt", "update", "&&", "apt", "install", "-y", service>>)
         /\ (~ops[j].ok /\ j < Len(ops) /\ ops[j + 1].cmd = <<"which", "yum">> /\ ops[j + 1].ok)
              => InstallAfter(j + 1, <<"yum", "install", "-y", service>>)

\* ---------------------------------------------------- restore: the steps

\* restore_service was entered for the service: its first log line is there.
ServiceBegan(service) ==
  \E i \in DOMAIN logFile.lines :
    logFile.lines[i] = Tagged(<<"Restoring service:", service>>)
OpsOf(ctx) == {j \in DOMAIN ops : ops[j].ctx = ctx}
PushesOf(ctx) == {j \in OpsOf(ctx) : ops[j].kind = "push"}
CmdsOf(ctx, cmd) == {j \in OpsOf(ctx) : ops[j].kind = "cmd" /\ ops[j].cmd = cmd}

\* C21: for a service with a restore recipe, every recipe path present under
\* its files area is pushed from there to the same absolute path, and nothing
\* else is pushed; the pre-restore command, when defined, is issued before the
\* pushes; the restart command is issued after all of them.
C21_RecipeOrder ==
  \A service \in DOMAIN SERVICE_RESTORE_HANDLERS :
    ServiceBegan(service) =>
      LET ctx == SvcCtx(service)
          recipe == SERVICE_RESTORE_HANDLERS[service]
          files_dir == <<"services", service, "files">>
      IN /\ \A n \in DOMAIN recipe.paths :
              exists(bdir, files_dir \o recipe.paths[n]) =>
                \E j \in PushesOf(ctx) :
                  ops[j].src = files_dir \o recipe.paths[n] /\ ops[j].dst = recipe.paths[n]
         /\ \A j \in PushesOf(ctx) :
              /\ ops[j].dst \in Range(recipe.paths)
              /\ ops[j].src = files_dir \o ops[j].dst
              /\ exists(bdir, ops[j].src)
         /\ HasRestoreKey(service, "pre_restore_cmd") =>
              /\ CmdsOf(ctx, recipe.pre_restore_cmd) # {}
              /\ \A j \in CmdsOf(ctx, recipe.pre_restore_cmd), k \in PushesOf(ctx) : j < k
         /\ (HasRestoreKey(service, "restart_cmd") /\ service \in svcDone) =>
              /\ CmdsOf(ctx, recipe.restart_cmd) # {}
              /\ \A j \in CmdsOf(ctx, recipe.restart_cmd), k \in PushesOf(ctx) : k < j
C21_Witness ==
  /\ result = "True"
  /\ Cardinality(PushesOf(SvcCtx("nginx"))) = 2
  /\ CmdsOf(SvcCtx("nginx"), <<"systemctl", "restart", "nginx">>) # {}
C21_WitnessPre ==
  /\ PushesOf(SvcCtx("mysql")) # {}
  /\ CmdsOf(SvcCtx("mysql"), <<"systemctl", "stop", "mysql">>) # {}

\* C22: a restored service has its post-restore command issued once when its
\* recipe defines one, else its restart command once when its recipe defines
\* one, and never both; a service without recipe has no command issued.
C22_PostOrRestart ==
  \A service \in svcDone :
    LET ctx == SvcCtx(service)
        Issues(k) == IF HasRestoreKey(service, k)
                     THEN Cardinality(CmdsOf(ctx, SERVICE_RESTORE_HANDLERS[service][k]))
                     ELSE 0
    IN /\ HasRestoreKey(service, "post_restore_cmd") =>
            Issues("post_restore_cmd") = 1 /\ Issues("restart_cmd") = 0
       /\ (~HasRestoreKey(service, "post_restore_cmd") /\ HasRestoreKey(service, "restart_cmd"))
            => Issues("restart_cmd") = 1
       /\ Issues("post_restore_cmd") + Issues("restart_cmd") <= 1
       /\ service \notin DOMAIN SERVICE_RESTORE_HANDLERS =>
            \A j \in OpsOf(ctx) : ops[j].kind # "cmd"
C22_Witness ==
  /\ result = "True"
  /\ {"nginx", "redis"} \subseteq svcDone
  /\ OpsOf(SvcCtx("redis")) # {}
C22_WitnessPost ==
  /\ "docker" \in svcDone
  /\ CmdsOf(SvcCtx("docker"), <<"systemctl", "restart", "docker">>) # {}

\* C23: for a restored service without recipe, each top-level directory D of
\* its files area is pushed to /D/, nothing else is pushed, and no command is
\* issued.
C23_FallbackPushes ==
  \A service \in svcDone :
    service \notin DOMAIN SERVICE_RESTORE_HANDLERS =>
      LET ctx == SvcCtx(service)
          files_dir == <<"services", service, "files">>
          top == IF exists(bdir, files_dir)
                 THEN {d \in listdir(bdir, files_dir) : isdir(bdir, files_dir \o <<d>>)}
                 ELSE {}
      IN /\ \A d \in top :
              \E j \in PushesOf(ctx) : ops[j].src = files_dir \o <<d>> /\ ops[j].dst = <<d>>
         /\ \A j \in PushesOf(ctx) :
              Len(ops[j].dst) = 1 /\ ops[j].dst[1] \in top /\ ops[j].src = files_dir \o ops[j].dst
         /\ Cardinality(PushesOf(ctx)) = Cardinality(top)
         /\ OpsOf(ctx) = PushesOf(ctx)
C23_Witness ==
  /\ "redis" \in svcDone
  /\ <<"services", "redis", "files", "notes.txt">> \in DOMAIN bdir.files
  /\ Cardinality(PushesOf(SvcCtx("redis"))) = 1

\* C24: for every user handled, the ensure-account command comes first, the
\* home lookup second, and the home tree is pushed, after both and to the home
\* found, only when the lookup succeeded; a finished run handled every user of
\* homes/.
C24_UserSteps ==
  /\ \A user \in userDone :
       LET ctx == HomeCtx(user)
           ensure == CmdsOf(ctx, <<"id", user, "||", "useradd", "-m", user>>)
           lookup == CmdsOf(ctx, <<"getent", "passwd", user, "|", "cut", "-d:", "-f6">>)
       IN /\ Cardinality(ensure) = 1 /\ Cardinality(lookup) = 1
          /\ \A j \in ensure, k \in lookup : j < k
          /\ Cardinality(PushesOf(ctx)) <= 1
          /\ \A p \in PushesOf(ctx) :
               /\ \A k \in lookup : k < p /\ ops[k].ok
               /\ ops[p].src = <<"homes", user>> /\ ops[p].dst = HomeOf(user)
          /\ (\E k \in lookup : ~ops[k].ok) => PushesOf(ctx) = {}
  /\ result = "True" => userDone = Subdirs(bdir, <<"homes">>)
C24_Witness ==
  /\ result = "True"
  /\ userDone = {"alice", "bob"}
  /\ \E u, v \in userDone : PushesOf(HomeCtx(u)) = {} /\ PushesOf(HomeCtx(v)) # {}

\* C25: the restore log holds one line per step, each with the timestamp
\* tag: a log being written has only tagged lines.
C25_EveryLineTagged ==
  logFile.present => \A i \in DOMAIN logFile.lines : logFile.lines[i].tag

Verbs == {"start", "stop", "restart", "status", "enable"}
\* C27: no management verb is reported in the services collection of a
\* parsed history; the name after `service` is.
C27_NoVerbAsService ==
  (fn = "parse_bash_history" /\ ret.done /\ arg.exists) =>
    /\ Range(ret.val.first.services) \cap Verbs = {}
    /\ <<"service", "mysql", "start">> \in Range(arg.lines)
         => "mysql" \in Range(ret.val.first.services)

\* C29: for a restored service with a backup recipe, every recipe path held in
\* its files area is pushed back from there, by a push to that path or to a
\* directory above it.
C29_BackupPathsRestored ==
  \A service \in svcDone \cap DOMAIN SERVICE_BACKUP_HANDLERS :
    \A path \in Range(BackupRecipe(service, "paths")) :
      exists(bdir, <<"services", service, "files">> \o path) =>
        \E j \in PushesOf(SvcCtx(service)) :
          /\ IsPrefix(ops[j].dst, path)
          /\ ops[j].src = <<"services", service, "files">> \o ops[j].dst

\* C30: once the final section is written, a service listed in it had every
\* remote operation of its restore succeed, and a user listed in it had the
\* push of the home tree succeed.
C30_ListedOnlyIfSucceeded ==
  result = "True" =>
    \A i \in DOMAIN logFile.lines :
      LET line == logFile.lines[i]
      IN (Len(line.msg) = 2 /\ line.msg[1] = "  -") =>
           /\ line.msg[2] \in ServiceUniverse =>
                \A j \in OpsOf(SvcCtx(line.msg[2])) : ops[j].ok
           /\ line.msg[2] \in UserUniverse =>
                \E j \in PushesOf(HomeCtx(line.msg[2])) : ops[j].ok

\* ------------------------------------------------- restore: the target

\* The files a local tree holds, relative to its root: the files the model
\* names and, for each directory pulled whole, its content "*".
TreeFiles(fs, src) ==
  LET under(p) == Len(p) > Len(src) /\ IsPrefix(src, p)
      rel(p) == SubSeq(p, Len(src) + 1, Len(p))
      leaf(d) == /\ \A e \in fs.dirs : ~(Len(e) > Len(d) /\ IsPrefix(d, e))
                 /\ \A f \in DOMAIN fs.files : ~IsPrefix(d, f)
  IN {rel(f) : f \in {g \in DOMAIN fs.files : under(g)}}
       \cup {rel(d) \o <<"*">> : d \in {e \in fs.dirs : (e = src \/ under(e)) /\ leaf(e)}}
\* rsync -avz --delete src/ dst/: the target below dst becomes the tree at src.
Mirror(target, fs, src, dst) ==
  {p \in target : ~IsPrefix(dst, p)} \cup {dst \o r : r \in TreeFiles(fs, src)}
\* The files the pushes issued so far have left on the target.
RECURSIVE TargetAfter(_)
TargetAfter(n) ==
  IF n = 0 THEN {}
  ELSE IF ops[n].kind = "push" /\ ops[n].ok
       THEN Mirror(TargetAfter(n - 1), bdir, ops[n].src, ops[n].dst)
       ELSE TargetAfter(n - 1)
SystemEtcPushed ==
  IF \E j \in PushesOf(SysCtx) : ops[j].dst = <<"etc">> /\ ops[j].ok
  THEN {<<"etc">> \o r : r \in TreeFiles(bdir, <<"system", "etc">>)}
  ELSE {}

\* C28: at the end of a restore whose remote operations all succeeded, the
\* files pushed from system/etc to /etc are still on the target.
C28_SystemFilesSurvive ==
  (result = "True" /\ \A j \in DOMAIN ops : ops[j].ok) =>
    SystemEtcPushed \subseteq TargetAfter(Len(ops))

\* ---------------------------------------------------- backup: the steps

BackupStepRank(phase) ==
  CASE phase = "service" -> 1
    [] phase = "homes" -> 2
    [] OTHER -> 3
ConfigIndex(ip) == CHOOSE i \in DOMAIN servers : servers[i] = ip
InOrder(a, b) ==
  \/ ConfigIndex(a.ctx.host) < ConfigIndex(b.ctx.host)
  \/ a.ctx.host = b.ctx.host /\ BackupStepRank(a.ctx.phase) <= BackupStepRank(b.ctx.phase)
HasSummary(fs, ip) == <<ip, "backup_summary.json">> \in DOMAIN fs.files

\* C26: the remote operations of a backup follow the configuration order of
\* the servers and, for each server, the order services, homes, system; the
\* summary of a server is written by the step that ends its system
\* configuration backup, after which no operation of that server is issued and
\* the summary is not written again.
C26_BackupStepOrder ==
  [][/\ \A n \in (Len(ops) + 1)..Len(ops') : n > 1 => InOrder(ops'[n - 1], ops'[n])
     /\ \A n \in (Len(ops) + 1)..Len(ops') : ~HasSummary(lfs, ops'[n].ctx.host)
     /\ \A ip \in IPs :
          /\ (HasSummary(lfs', ip) /\ ~HasSummary(lfs, ip)) =>
               /\ bpc.step = "system" /\ servers[ConfigIndex(ip)] = Selected[bpc.i]
               /\ bpc'.i = bpc.i + 1
               /\ LET new == (Len(ops) + 1)..Len(ops')
                  IN /\ \A n \in new : ops'[n].ctx = Ctx("system", ip, "")
                     /\ Cardinality({n \in new : ops'[n].kind = "pull"}) = Len(system_paths)
                     /\ Cardinality({n \in new : ops'[n].kind = "cmd"}) >= Len(system_commands)
          /\ HasSummary(lfs, ip) =>
               /\ HasSummary(lfs', ip)
               /\ lfs'.files[<<ip, "backup_summary.json">>] = lfs.files[<<ip, "backup_summary.json">>]
     /\ (bpc.step = "system" /\ bpc'.step = "begin") => HasSummary(lfs', Selected[bpc.i])
    ]_vars
C26_Witness ==
  /\ result = "backup_dir"
  /\ \A ip \in IPs : HasSummary(lfs, ip)
  /\ \A ip \in IPs : \A phase \in {"service", "homes", "system"} :
       \E j \in DOMAIN ops : ops[j].ctx.host = ip /\ ops[j].ctx.phase = phase

====
